---- MODULE Spec2Model ----
(***************************************************************************)
(* cc-vault: ingestion of conversation messages into the conversations     *)
(* table, schema and full-text index management, the connection the        *)
(* statements are executed on and its use by several threads, the decoding *)
(* of conversation files, search with its relative dates and its command,  *)
(* and the interactive dashboard.                                          *)
(*                                                                         *)
(* Text is modelled as a sequence of tokens (strings); the token "'" is    *)
(* the single-quote character, so that the statement text built with       *)
(* format! can be parsed again by the store the way an SQL engine reads    *)
(* it.  Option<T> is modelled as a sequence of length 0 (None) or 1        *)
(* (Some).                                                                 *)
(***************************************************************************)
EXTENDS Integers, Sequences, FiniteSets, TLC

VARIABLES connected, store, clock, last, mutex, threads, app, run

vars == <<connected, store, clock, last, mutex, threads, app, run>>

---------------------------------------------------------------------------
(* Bounds of the model.                                                    *)

MaxClock == 2
MaxBatch == 2
MaxRowId == 3
MaxResults == 3
MaxDoc == 4
MaxRetries == 3
MaxInput == 3

---------------------------------------------------------------------------
(* Option and text helpers.                                                *)

None == <<>>
Some(x) == <<x>>
IsSome(o) == Len(o) = 1
Unwrap(o) == o[1]

Q == "'"

RECURSIVE Concat(_)
Concat(parts) ==
    IF parts = <<>> THEN <<>> ELSE Head(parts) \o Concat(Tail(parts))

(* format!("'{}'", s) *)
Quoted(s) == <<Q>> \o s \o <<Q>>

(* opt.as_ref().map(|s| format!("'{}'", s)).unwrap_or("NULL".to_string()) *)
QuotedOrNull(o) == IF IsSome(o) THEN Quoted(Unwrap(o)) ELSE <<"NULL">>

(* serde_json values that occur as message content: a JSON string or null *)
JsonString(s) == [kind |-> "string", s |-> s]
JsonNull == [kind |-> "null", s |-> <<>>]

(* serde_json::to_string: a string is written between double quotes (the    *)
(* texts of the model hold no character that JSON escapes), null as null.  *)
JsonToString(v) ==
    IF v.kind = "string" THEN <<"\"">> \o v.s \o <<"\"">> ELSE <<"null">>

(* DateTime<Utc>::to_rfc3339 and the store's reading of a timestamp text.  *)
TimestampTexts == <<"T0", "T1", "T2", "T3">>
MaxTimestamp == Len(TimestampTexts) - 1
ToRfc3339(t) == <<TimestampTexts[t + 1]>>
IsTimestampText(s) ==
    Len(s) = 1 /\ \E i \in 1..Len(TimestampTexts) : TimestampTexts[i] = s[1]
ParseTimestamp(s) ==
    (CHOOSE i \in 1..Len(TimestampTexts) : TimestampTexts[i] = s[1]) - 1

---------------------------------------------------------------------------
(* ClaudeMessage values used as inputs.                                    *)

BaseMessage ==
    [ uuid |-> <<"u1">>, parent_uuid |-> None, is_sidechain |-> FALSE,
      user_type |-> <<"external">>, cwd |-> <<"/w">>, session_id |-> <<"s1">>,
      version |-> <<"1.0.0">>, git_branch |-> Some(<<"main">>),
      message_type |-> <<"user">>, timestamp |-> 0,
      message |-> [ role |-> Some(<<"user">>),
                    content |-> Some(JsonString(<<"hello">>)),
                    id |-> None, content_type |-> None, model |-> None ] ]

(* same uuid as BaseMessage, every other stored field different *)
RevisedMessage ==
    [ uuid |-> <<"u1">>, parent_uuid |-> Some(<<"u0">>), is_sidechain |-> TRUE,
      user_type |-> <<"internal">>, cwd |-> <<"/v">>, session_id |-> <<"s2">>,
      version |-> <<"2.0.0">>, git_branch |-> None,
      message_type |-> <<"assistant">>, timestamp |-> 1,
      message |-> [ role |-> None, content |-> Some(JsonNull),
                    id |-> Some(<<"m1">>), content_type |-> Some(<<"message">>),
                    model |-> Some(<<"model-x">>) ] ]

OtherMessage == [BaseMessage EXCEPT !.uuid = <<"u2">>, !.timestamp = 2]

(* content with an apostrophe: it's *)
ApostropheMessage ==
    [BaseMessage EXCEPT !.uuid = <<"u3">>,
                        !.message.content = Some(JsonString(<<"it", Q, "s">>))]

(* cwd = x', is_favorite = TRUE, created_at = 'T0 *)
CraftedMessage ==
    [BaseMessage EXCEPT !.cwd = <<"x", Q, ",", "is_favorite", "=", "TRUE", ",",
                                  "created_at", "=", Q, "T0">>]

Messages ==
    {BaseMessage, RevisedMessage, OtherMessage, ApostropheMessage, CraftedMessage}

ProjectPaths == {<<"/p">>, <<"/q">>}

---------------------------------------------------------------------------
(* Statement texts.                                                        *)

CREATE_CONVERSATIONS_TABLE == <<"CREATE TABLE IF NOT EXISTS conversations">>
CREATE_UUID_INDEX == <<"CREATE INDEX IF NOT EXISTS idx_conversations_uuid">>
CREATE_SESSION_INDEX == <<"CREATE INDEX IF NOT EXISTS idx_conversations_session">>
CREATE_TIMESTAMP_INDEX == <<"CREATE INDEX IF NOT EXISTS idx_conversations_timestamp">>
CREATE_PROJECT_INDEX == <<"CREATE INDEX IF NOT EXISTS idx_conversations_project">>
CREATE_FTS_INDEX == <<"CREATE VIRTUAL TABLE IF NOT EXISTS conversations_fts">>
CREATE_FTS_TRIGGERS == <<"CREATE TRIGGER IF NOT EXISTS conversations_fts_*">>
DROP_CONVERSATIONS_TABLE == <<"DROP TABLE IF EXISTS conversations">>
DROP_FTS_TABLE == <<"DROP TABLE IF EXISTS conversations_fts">>

(* the parameterised statements the module declares (and never executes)  *)
INSERT_CONVERSATION == <<"INSERT INTO conversations (...) VALUES (?, ...)">>
UPDATE_CONVERSATION == <<"UPDATE conversations SET ... = ? WHERE uuid = ?">>

InsertHead == "INSERT INTO conversations (...) VALUES ("
UpdateHead == "UPDATE conversations SET"

(* message.message.content.as_ref().map(|v| to_string(v).unwrap_or_default()) *)
MessageContentText(m) ==
    IF IsSome(m.message.content)
    THEN Some(JsonToString(Unwrap(m.message.content)))
    ELSE None

(* the format! of import_single_conversation *)
InsertQuery(m, project_path) ==
    Concat(<< <<InsertHead>>,
              Quoted(m.uuid), <<",">>,
              QuotedOrNull(m.parent_uuid), <<",">>,
              Quoted(m.session_id), <<",">>,
              Quoted(m.user_type), <<",">>,
              Quoted(m.message_type), <<",">>,
              QuotedOrNull(m.message.role), <<",">>,
              QuotedOrNull(MessageContentText(m)), <<",">>,
              Quoted(project_path), <<",">>,
              Quoted(m.cwd), <<",">>,
              QuotedOrNull(m.git_branch), <<",">>,
              Quoted(m.version), <<",">>,
              Quoted(ToRfc3339(m.timestamp)), <<",">>,
              <<"false">>, <<")">> >>)

(* the format! of update_conversation *)
UpdateQuery(m, project_path) ==
    Concat(<< <<UpdateHead>>,
              <<"parent_uuid", "=">>, QuotedOrNull(m.parent_uuid), <<",">>,
              <<"session_id", "=">>, Quoted(m.session_id), <<",">>,
              <<"user_type", "=">>, Quoted(m.user_type), <<",">>,
              <<"message_type", "=">>, Quoted(m.message_type), <<",">>,
              <<"message_role", "=">>, QuotedOrNull(m.message.role), <<",">>,
              <<"message_content", "=">>, QuotedOrNull(MessageContentText(m)), <<",">>,
              <<"project_path", "=">>, Quoted(project_path), <<",">>,
              <<"cwd", "=">>, Quoted(m.cwd), <<",">>,
              <<"git_branch", "=">>, QuotedOrNull(m.git_branch), <<",">>,
              <<"version", "=">>, Quoted(m.version), <<",">>,
              <<"timestamp", "=">>, Quoted(ToRfc3339(m.timestamp)), <<",">>,
              <<"updated_at", "=", "CURRENT_TIMESTAMP">>,
              <<"WHERE", "uuid", "=">>, Quoted(m.uuid) >>)

---------------------------------------------------------------------------
(* The store: the objects of the schema, the rows of conversations and the *)
(* rows of the full-text index, and how it reads and runs a statement.     *)

Table == "conversations"
TableIndexes ==
    { "idx_conversations_uuid", "idx_conversations_session",
      "idx_conversations_timestamp", "idx_conversations_project" }
FtsTable == "conversations_fts"
InsertTrigger == "conversations_fts_insert"
DeleteTrigger == "conversations_fts_delete"
UpdateTrigger == "conversations_fts_update"
Triggers == {InsertTrigger, DeleteTrigger, UpdateTrigger}
SchemaObjects == {Table} \cup TableIndexes \cup {FtsTable} \cup Triggers

EmptyStore == [objects |-> {}, rows |-> {}, fts |-> {}]

TextNotNull ==
    {"uuid", "session_id", "user_type", "message_type", "project_path", "cwd", "version"}
TextNullable == {"parent_uuid", "message_role", "message_content", "git_branch"}
TimeColumns == {"timestamp", "created_at", "updated_at"}
BoolColumns == {"is_favorite"}
Columns == TextNotNull \cup TextNullable \cup TimeColumns \cup BoolColumns

(* the column list of the INSERT statement, in order *)
InsertColumns ==
    << "uuid", "parent_uuid", "session_id", "user_type", "message_type",
       "message_role", "message_content", "project_path", "cwd", "git_branch",
       "version", "timestamp", "is_favorite" >>

NoValue == [ok |-> FALSE, kind |-> "none", s |-> <<>>, next |-> 0]

RECURSIVE ClosingQuote(_, _)
ClosingQuote(t, i) ==
    IF i > Len(t) THEN 0
    ELSE IF t[i] = Q THEN i
    ELSE ClosingQuote(t, i + 1)

(* one SQL value starting at token i: a string literal between quotes, or  *)
(* a keyword                                                               *)
StringLiteral(t, i, j) ==
    IF j = 0 THEN NoValue
    ELSE [ok |-> TRUE, kind |-> "str", s |-> SubSeq(t, i + 1, j - 1), next |-> j + 1]

ParseValue(t, i) ==
    IF i > Len(t) THEN NoValue
    ELSE IF t[i] = Q THEN StringLiteral(t, i, ClosingQuote(t, i + 1))
    ELSE IF t[i] = "NULL"
    THEN [ok |-> TRUE, kind |-> "null", s |-> <<>>, next |-> i + 1]
    ELSE IF t[i] \in {"TRUE", "true"}
    THEN [ok |-> TRUE, kind |-> "true", s |-> <<>>, next |-> i + 1]
    ELSE IF t[i] \in {"FALSE", "false"}
    THEN [ok |-> TRUE, kind |-> "false", s |-> <<>>, next |-> i + 1]
    ELSE IF t[i] = "CURRENT_TIMESTAMP"
    THEN [ok |-> TRUE, kind |-> "now", s |-> <<>>, next |-> i + 1]
    ELSE NoValue

(* does the column accept the value (type and NOT NULL) *)
CanStore(col, v) ==
    IF col \in TextNotNull THEN v.kind = "str"
    ELSE IF col \in TextNullable THEN v.kind \in {"str", "null"}
    ELSE IF col \in TimeColumns
    THEN v.kind = "now" \/ (v.kind = "str" /\ IsTimestampText(v.s))
    ELSE v.kind \in {"true", "false"}

Stored(col, v, now) ==
    IF col \in TextNotNull THEN v.s
    ELSE IF col \in TextNullable THEN (IF v.kind = "str" THEN Some(v.s) ELSE None)
    ELSE IF col \in TimeColumns
    THEN (IF v.kind = "now" THEN now ELSE ParseTimestamp(v.s))
    ELSE v.kind = "true"

NoList == [ok |-> FALSE, items |-> <<>>, next |-> 0]

(* col = value {, col = value} *)
RECURSIVE ParseAssignments(_, _)
MoreAssignments(col, v, rest) ==
    IF rest.ok
    THEN [ok |-> TRUE, items |-> <<[col |-> col, val |-> v]>> \o rest.items,
          next |-> rest.next]
    ELSE NoList

AssignmentsFrom(t, i, v) ==
    IF ~v.ok THEN NoList
    ELSE IF v.next <= Len(t) /\ t[v.next] = ","
    THEN MoreAssignments(t[i], v, ParseAssignments(t, v.next + 1))
    ELSE [ok |-> TRUE, items |-> <<[col |-> t[i], val |-> v]>>, next |-> v.next]

ParseAssignments(t, i) ==
    IF i + 1 > Len(t) THEN NoList
    ELSE IF t[i] \notin Columns \/ t[i + 1] # "=" THEN NoList
    ELSE AssignmentsFrom(t, i, ParseValue(t, i + 2))

(* value {, value} *)
RECURSIVE ParseValues(_, _)
MoreValues(v, rest) ==
    IF rest.ok
    THEN [ok |-> TRUE, items |-> <<v>> \o rest.items, next |-> rest.next]
    ELSE NoList

ValuesFrom(t, v) ==
    IF ~v.ok THEN NoList
    ELSE IF v.next <= Len(t) /\ t[v.next] = ","
    THEN MoreValues(v, ParseValues(t, v.next + 1))
    ELSE [ok |-> TRUE, items |-> <<v>>, next |-> v.next]

ParseValues(t, i) == ValuesFrom(t, ParseValue(t, i))

---------------------------------------------------------------------------
(* Running a statement.  A statement is atomic: when any part of it fails  *)
(* (a constraint, a trigger) the store is left as it was.                  *)

Rejected(db) == [ok |-> FALSE, db |-> db]
Done(db) == [ok |-> TRUE, db |-> db]

RowIds(db) == {r.id : r \in db.rows}
FtsRowIds(db) == {e.rowid : e \in db.fts}

Max(S) == CHOOSE x \in S : \A y \in S : y <= x

(* id INTEGER PRIMARY KEY of a row inserted without an id *)
NextRowId(db) == IF db.rows = {} THEN 1 ELSE Max(RowIds(db)) + 1

(* uuid TEXT NOT NULL UNIQUE, id PRIMARY KEY *)
UniqueKeys(rows) ==
    \A r1, r2 \in rows : (r1.uuid = r2.uuid \/ r1.id = r2.id) => r1 = r2

FtsEntry(r) == [rowid |-> r.id, uuid |-> r.uuid, message_content |-> r.message_content]

NoDuplicateColumns(items) ==
    \A i, j \in 1..Len(items) : items[i].col = items[j].col => i = j

(* a row before the statement's values are stored: the column defaults   *)
(* (is_favorite FALSE, created_at and updated_at CURRENT_TIMESTAMP)        *)
DefaultRow(id, now) ==
    [ id |-> id, uuid |-> <<>>, parent_uuid |-> None, session_id |-> <<>>,
      user_type |-> <<>>, message_type |-> <<>>, message_role |-> None,
      message_content |-> None, project_path |-> <<>>, cwd |-> <<>>,
      git_branch |-> None, version |-> <<>>, timestamp |-> 0,
      is_favorite |-> FALSE, created_at |-> now, updated_at |-> now ]

RECURSIVE ApplyAssignments(_, _, _)
ApplyAssignments(r, items, now) ==
    IF items = <<>> THEN r
    ELSE ApplyAssignments(
             [r EXCEPT ![Head(items).col] = Stored(Head(items).col, Head(items).val, now)],
             Tail(items), now)

(* CREATE TABLE without IF NOT EXISTS: an existing table is an error *)
ExecCreateTableStrict(db) ==
    IF Table \in db.objects THEN Rejected(db)
    ELSE Done([db EXCEPT !.objects = @ \cup {Table}])

ExecCreateTable(db) == Done([db EXCEPT !.objects = @ \cup {Table}])

(* CREATE INDEX IF NOT EXISTS name ON conversations(column) *)
ExecCreateIndex(db, name) ==
    IF Table \notin db.objects THEN Rejected(db)
    ELSE Done([db EXCEPT !.objects = @ \cup {name}])

(* CREATE VIRTUAL TABLE IF NOT EXISTS: a new index starts with no rows *)
ExecCreateFts(db) == Done([db EXCEPT !.objects = @ \cup {FtsTable}])

(* CREATE TRIGGER IF NOT EXISTS ... ON conversations, three times *)
ExecCreateTriggers(db) ==
    IF Table \notin db.objects THEN Rejected(db)
    ELSE Done([db EXCEPT !.objects = @ \cup Triggers])

(* DROP TABLE IF EXISTS conversations: its indexes and triggers go with it *)
ExecDropTable(db) ==
    Done([db EXCEPT !.objects = @ \ ({Table} \cup TableIndexes \cup Triggers),
                    !.rows = {}])

ExecDropFts(db) ==
    Done([db EXCEPT !.objects = @ \ {FtsTable}, !.fts = {}])

(* AFTER INSERT ON conversations *)
FireInsertTrigger(db, new) ==
    IF InsertTrigger \notin db.objects THEN Done(db)
    ELSE IF FtsTable \notin db.objects \/ new.id \in FtsRowIds(db) THEN Rejected(db)
    ELSE Done([db EXCEPT !.fts = @ \cup {FtsEntry(new)}])

(* AFTER DELETE ON conversations *)
FireDeleteTrigger(db, old) ==
    IF DeleteTrigger \notin db.objects THEN Done(db)
    ELSE IF FtsTable \notin db.objects THEN Rejected(db)
    ELSE Done([db EXCEPT !.fts = {e \in @ : e.rowid # old.id}])

(* AFTER UPDATE ON conversations *)
ReplaceFtsEntry(db, kept, new) ==
    IF new.id \in {e.rowid : e \in kept} THEN Rejected(db)
    ELSE Done([db EXCEPT !.fts = kept \cup {FtsEntry(new)}])

FireUpdateTrigger(db, old, new) ==
    IF UpdateTrigger \notin db.objects THEN Done(db)
    ELSE IF FtsTable \notin db.objects THEN Rejected(db)
    ELSE ReplaceFtsEntry(db, {e \in db.fts : e.rowid # old.id}, new)

(* a trigger that fails undoes the statement that fired it *)
Atomic(fired, db) == IF fired.ok THEN fired ELSE Rejected(db)

InsertRow(db, new) ==
    IF ~UniqueKeys(db.rows \cup {new}) THEN Rejected(db)
    ELSE Atomic(FireInsertTrigger([db EXCEPT !.rows = @ \cup {new}], new), db)

InsertItems(p) ==
    [i \in 1..Len(InsertColumns) |-> [col |-> InsertColumns[i], val |-> p.items[i]]]

InsertValues(db, t, now, p) ==
    IF ~p.ok \/ Table \notin db.objects THEN Rejected(db)
    ELSE IF ~(Len(p.items) = Len(InsertColumns) /\ p.next = Len(t) /\ t[p.next] = ")")
    THEN Rejected(db)
    ELSE IF \E i \in 1..Len(InsertColumns) : ~CanStore(InsertColumns[i], p.items[i])
    THEN Rejected(db)
    ELSE InsertRow(db, ApplyAssignments(DefaultRow(NextRowId(db), now),
                                        InsertItems(p), now))

ExecInsert(db, t, now) == InsertValues(db, t, now, ParseValues(t, 2))

NoUpdate == [ok |-> FALSE, items |-> <<>>, where |-> <<>>]

ParseWhere(t, a, w) ==
    IF /\ t[a.next] = "WHERE" /\ t[a.next + 1] = "uuid" /\ t[a.next + 2] = "="
       /\ w.ok /\ w.kind = "str" /\ w.next = Len(t) + 1
    THEN [ok |-> TRUE, items |-> a.items, where |-> w.s]
    ELSE NoUpdate

ParseUpdateAfter(t, a) ==
    IF ~a.ok \/ a.next + 3 > Len(t) THEN NoUpdate
    ELSE ParseWhere(t, a, ParseValue(t, a.next + 3))

ParseUpdate(t) == ParseUpdateAfter(t, ParseAssignments(t, 2))

StoreUpdated(db, rows2, old, new) ==
    IF ~UniqueKeys(rows2) \/ Cardinality(rows2) # Cardinality(db.rows)
    THEN Rejected(db)
    ELSE Atomic(FireUpdateTrigger([db EXCEPT !.rows = rows2], old, new), db)

UpdateRows(db, hit, old, items, now) ==
    StoreUpdated(db, (db.rows \ hit) \cup {ApplyAssignments(r, items, now) : r \in hit},
                 old, ApplyAssignments(old, items, now))

UpdateHit(db, hit, items, now) ==
    IF hit = {} THEN Done(db)
    ELSE UpdateRows(db, hit, CHOOSE r \in hit : TRUE, items, now)

UpdateParsed(db, p, now) ==
    IF ~p.ok \/ Table \notin db.objects THEN Rejected(db)
    ELSE IF ~NoDuplicateColumns(p.items) THEN Rejected(db)
    ELSE IF \E i \in 1..Len(p.items) : ~CanStore(p.items[i].col, p.items[i].val)
    THEN Rejected(db)
    ELSE UpdateHit(db, {r \in db.rows : r.uuid = p.where}, p.items, now)

ExecUpdate(db, t, now) == UpdateParsed(db, ParseUpdate(t), now)

(* DELETE FROM conversations WHERE id = ... *)
DeleteHit(db, hit) ==
    IF hit = {} THEN Done(db)
    ELSE Atomic(FireDeleteTrigger([db EXCEPT !.rows = @ \ hit], CHOOSE r \in hit : TRUE), db)

ExecDelete(db, id) ==
    IF Table \notin db.objects THEN Rejected(db)
    ELSE DeleteHit(db, {r \in db.rows : r.id = id})

(* the engine's reading of a statement text *)
ExecuteSql(db, t, now) ==
    IF t = <<>> THEN Rejected(db)
    ELSE IF t = CREATE_CONVERSATIONS_TABLE THEN ExecCreateTable(db)
    ELSE IF t = CREATE_UUID_INDEX THEN ExecCreateIndex(db, "idx_conversations_uuid")
    ELSE IF t = CREATE_SESSION_INDEX THEN ExecCreateIndex(db, "idx_conversations_session")
    ELSE IF t = CREATE_TIMESTAMP_INDEX THEN ExecCreateIndex(db, "idx_conversations_timestamp")
    ELSE IF t = CREATE_PROJECT_INDEX THEN ExecCreateIndex(db, "idx_conversations_project")
    ELSE IF t = CREATE_FTS_INDEX THEN ExecCreateFts(db)
    ELSE IF t = CREATE_FTS_TRIGGERS THEN ExecCreateTriggers(db)
    ELSE IF t = DROP_CONVERSATIONS_TABLE THEN ExecDropTable(db)
    ELSE IF t = DROP_FTS_TABLE THEN ExecDropFts(db)
    ELSE IF t[1] = InsertHead THEN ExecInsert(db, t, now)
    ELSE IF t[1] = UpdateHead THEN ExecUpdate(db, t, now)
    ELSE Rejected(db)

---------------------------------------------------------------------------
(* The connection (RealDuckDBConnection) and the handlers.                 *)

OK == "Ok"
NotConnected == "Database not connected"
ExecNotConnected == "Not connected to database"
ExecFailed == "Failed to execute query"

(* DatabaseConnection::execute.  fault: the engine fails the statement for *)
(* a reason of its own (disk, lock), whatever the statement is.            *)
ExecuteResult(r, db) ==
    IF r.ok THEN [res |-> OK, db |-> r.db] ELSE [res |-> ExecFailed, db |-> db]

Execute(conn, db, t, now, fault) ==
    IF ~conn THEN [res |-> ExecNotConnected, db |-> db]
    ELSE IF fault THEN [res |-> ExecFailed, db |-> db]
    ELSE ExecuteResult(ExecuteSql(db, t, now), db)

LogEntry(t, res, fault) == [text |-> t, res |-> res, fault |-> fault]

Outcome(result, log, db) == [result |-> result, log |-> log, db |-> db]

(* self.connection.execute(s1)?; self.connection.execute(s2)?; ... Ok(())  *)
(* k is the position of Head(stmts) in the handler, faultAt the position   *)
(* of the statement the engine fails (0: none).                            *)
RECURSIVE RunStatements(_, _, _, _, _, _)
Prepend(entry, rest) == Outcome(rest.result, <<entry>> \o rest.log, rest.db)

(* the ? on the result e of execute: an Err returns at once *)
AfterExecute(conn, db, stmts, now, faultAt, k, e) ==
    IF e.res # OK
    THEN Outcome(e.res, <<LogEntry(Head(stmts), e.res, conn /\ faultAt = k)>>, db)
    ELSE Prepend(LogEntry(Head(stmts), e.res, conn /\ faultAt = k),
                 RunStatements(conn, e.db, Tail(stmts), now, faultAt, k + 1))

RunStatements(conn, db, stmts, now, faultAt, k) ==
    IF stmts = <<>> THEN Outcome(OK, <<>>, db)
    ELSE AfterExecute(conn, db, stmts, now, faultAt, k,
                      Execute(conn, db, Head(stmts), now, faultAt = k))

(* import_single_conversation without the is_connected check *)
ImportSingleConversationUnchecked(conn, db, m, project_path, now, faultAt) ==
    RunStatements(conn, db, <<InsertQuery(m, project_path)>>, now, faultAt, 1)

ImportSingleConversation(conn, db, m, project_path, now, faultAt) ==
    IF ~conn THEN Outcome(NotConnected, <<>>, db)
    ELSE RunStatements(conn, db, <<InsertQuery(m, project_path)>>, now, faultAt, 1)

(* Ok(false) whatever the uuid *)
CheckUuidExists(conn, db, uuid) ==
    IF ~conn THEN [result |-> NotConnected, exists |-> FALSE]
    ELSE [result |-> OK, exists |-> FALSE]

UpdateConversation(conn, db, m, project_path, now, faultAt) ==
    IF ~conn THEN Outcome(NotConnected, <<>>, db)
    ELSE RunStatements(conn, db, <<UpdateQuery(m, project_path)>>, now, faultAt, 1)

Inserted == "Inserted"
Updated == "Updated"

(* an upsert in two statements: a placeholder row is inserted for the uuid  *)
(* and then updated with the fields of the message                         *)
ImportWithDuplicateCheckTwoStep(conn, db, m, project_path, now, faultAt) ==
    LET placeholder == [BaseMessage EXCEPT !.uuid = m.uuid]
        i == ImportSingleConversation(conn, db, placeholder, project_path, now, faultAt)
    IN  IF i.result # OK THEN i
        ELSE LET u == UpdateConversation(conn, i.db, m, project_path, now, 0) IN
             IF u.result = OK THEN Outcome(Inserted, i.log \o u.log, u.db)
             ELSE Outcome(u.result, i.log \o u.log, u.db)

(* self.f(message, project_path)?; Ok(ImportAction::action)               *)
OkAs(action, r) == IF r.result = OK THEN Outcome(action, r.log, r.db) ELSE r

ImportWithDuplicateCheck(conn, db, m, project_path, now, faultAt) ==
    LET c == CheckUuidExists(conn, db, m.uuid) IN
    IF c.result # OK THEN Outcome(c.result, <<>>, db)
    ELSE IF c.exists
    THEN OkAs(Updated, UpdateConversation(conn, db, m, project_path, now, faultAt))
    ELSE OkAs(Inserted, ImportSingleConversation(conn, db, m, project_path, now, faultAt))

CreateSchema(conn, db, now, faultAt) ==
    IF ~conn THEN Outcome(NotConnected, <<>>, db)
    ELSE RunStatements(conn, db,
             << CREATE_CONVERSATIONS_TABLE, CREATE_UUID_INDEX, CREATE_SESSION_INDEX,
                CREATE_TIMESTAMP_INDEX, CREATE_PROJECT_INDEX >>, now, faultAt, 1)

CreateFtsIndexes(conn, db, now, faultAt) ==
    IF ~conn THEN Outcome(NotConnected, <<>>, db)
    ELSE RunStatements(conn, db, <<CREATE_FTS_INDEX, CREATE_FTS_TRIGGERS>>, now, faultAt, 1)

(* drop_schema with the two statements in the other order *)
DropSchemaTableFirst(conn, db, now, faultAt) ==
    IF ~conn THEN Outcome(NotConnected, <<>>, db)
    ELSE RunStatements(conn, db, <<DROP_CONVERSATIONS_TABLE, DROP_FTS_TABLE>>, now, faultAt, 1)

DropSchema(conn, db, now, faultAt) ==
    IF ~conn THEN Outcome(NotConnected, <<>>, db)
    ELSE RunStatements(conn, db, <<DROP_FTS_TABLE, DROP_CONVERSATIONS_TABLE>>, now, faultAt, 1)

(* self.create_schema()?; self.create_fts_indexes()?; Ok(())               *)
(* faultAt counts the statements of both calls, 1..7                       *)
AfterLog(log, b) == Outcome(b.result, log \o b.log, b.db)

ThenCreateFtsIndexes(conn, a, now, faultAt) ==
    IF a.result # OK THEN a
    ELSE AfterLog(a.log, CreateFtsIndexes(conn, a.db, now, faultAt - 5))

MigrateUp(conn, db, now, faultAt) ==
    ThenCreateFtsIndexes(conn, CreateSchema(conn, db, now, faultAt), now, faultAt)

MigrateDown(conn, db, now, faultAt) == DropSchema(conn, db, now, faultAt)

---------------------------------------------------------------------------
(* bulk_import and ImportStats.                                            *)

NewStats == [inserted |-> 0, updated |-> 0, skipped |-> 0, errors |-> 0]

TotalProcessed(stats) == stats.inserted + stats.updated + stats.skipped

(* the match of bulk_import with an Err arm that counts nothing *)
CountWithoutErrors(stats, result) ==
    IF result = Inserted THEN [stats EXCEPT !.inserted = @ + 1]
    ELSE IF result = Updated THEN [stats EXCEPT !.updated = @ + 1]
    ELSE IF result = "Skipped" THEN [stats EXCEPT !.skipped = @ + 1]
    ELSE stats

(* the match of bulk_import on the result of one message *)
Count(stats, result) ==
    IF result = Inserted THEN [stats EXCEPT !.inserted = @ + 1]
    ELSE IF result = Updated THEN [stats EXCEPT !.updated = @ + 1]
    ELSE IF result = "Skipped" THEN [stats EXCEPT !.skipped = @ + 1]
    ELSE [stats EXCEPT !.errors = @ + 1]

(* for message in messages { match self.import_with_duplicate_check(..) }  *)
(* faults: the positions of the messages whose statement the engine fails. *)
(* trail[k] is the store after the k-th message.                           *)
RECURSIVE BulkLoop(_, _, _, _, _, _, _, _)
Accumulate(acc, r) ==
    [ stats |-> Count(acc.stats, r.result),
      outcomes |-> Append(acc.outcomes, r.result),
      log |-> acc.log \o r.log,
      trail |-> Append(acc.trail, r.db),
      db |-> r.db ]

BulkStep(conn, messages, project_path, now, faults, k, acc, r) ==
    BulkLoop(conn, r.db, messages, project_path, now, faults, k + 1, Accumulate(acc, r))

BulkLoop(conn, db, messages, project_path, now, faults, k, acc) ==
    IF k > Len(messages) THEN acc
    ELSE BulkStep(conn, messages, project_path, now, faults, k, acc,
                  ImportWithDuplicateCheck(conn, db, messages[k], project_path, now,
                                           IF k \in faults THEN 1 ELSE 0))

BulkResult(acc) ==
    [ result |-> OK, stats |-> acc.stats, outcomes |-> acc.outcomes,
      log |-> acc.log, trail |-> acc.trail, db |-> acc.db ]

BulkImport(conn, db, messages, project_path, now, faults) ==
    BulkResult(BulkLoop(conn, db, messages, project_path, now, faults, 1,
                        [ stats |-> NewStats, outcomes |-> <<>>, log |-> <<>>,
                          trail |-> <<>>, db |-> db ]))

---------------------------------------------------------------------------
(* SearchEngine.  Times are in days; rank is in hundredths.                *)

Today == 20
DefaultLimit == 100

(* the keywords of the model and str::to_lowercase on them *)
Keywords == {"test", "Test", "rust", "programming", "python"}
ToLowercase(k) == IF k = "Test" THEN "test" ELSE k

(* test_content.to_lowercase().contains(k) for the lower-case keywords:    *)
(* "this is a test message about rust programming"                         *)
TestContentContains(k) == k \in {"test", "rust", "programming"}

SearchResult(id, uuid, session, content, project, timestamp, rank) ==
    [ id |-> id, uuid |-> uuid, session_id |-> session,
      message_content |-> Some(content), message_role |-> Some("user"),
      project_path |-> project, timestamp |-> timestamp, rank |-> rank,
      is_favorite |-> FALSE ]

TEST_CONTENT == "This is a test message about rust programming"

Contains(seq, x) == \E i \in 1..Len(seq) : seq[i] = x

(* keywords.join(" ") / keywords.join(" OR "), as a list of tokens *)
RECURSIVE Join(_, _)
Join(keywords, sep) ==
    IF Len(keywords) <= 1 THEN keywords
    ELSE <<Head(keywords)>> \o sep \o Join(Tail(keywords), sep)

BuildFtsQuery(keywords, mode) ==
    IF mode = "And" THEN Join(keywords, <<" ">>) ELSE Join(keywords, <<" OR ">>)

(* the candidates of the lookup *)
Candidates(q, today) ==
    IF q.mode = "And"
    THEN LET all == \A i \in 1..Len(q.keywords) :
                        TestContentContains(ToLowercase(q.keywords[i]))
         IN  IF all /\ Contains(q.keywords, "test")
             THEN << SearchResult(1, "test-uuid-1", "session-1", "This is a test message",
                                  "/test/project", today - 3, 90),
                     SearchResult(3, "test-uuid-3", "session-3",
                                  "This is a test from old project",
                                  "/old/project", today - 2, 85) >>
             ELSE IF all
             THEN << SearchResult(2, "test-uuid-2", "session-2", TEST_CONTENT,
                                  "/test/project", today - 10, 80) >>
             ELSE <<>>
    ELSE LET any == \E i \in 1..Len(q.keywords) :
                        TestContentContains(ToLowercase(q.keywords[i]))
         IN  IF any
             THEN << SearchResult(1, "test-uuid-1", "session-1", TEST_CONTENT,
                                  "/test/project", today - 5, 90) >>
             ELSE <<>>

(* the lower date bound as an exclusive bound *)
FilterDateFromExclusive(results, q) ==
    LET Keep(r) == r.timestamp > Unwrap(q.date_from) IN
    IF IsSome(q.date_from) THEN SelectSeq(results, Keep) ELSE results

FilterDateFrom(results, q) ==
    LET Keep(r) == r.timestamp >= Unwrap(q.date_from) IN
    IF IsSome(q.date_from) THEN SelectSeq(results, Keep) ELSE results

(* the upper date bound applied from the last result to the first *)
FilterDateToReversed(results, q) ==
    LET Keep(r) == r.timestamp <= Unwrap(q.date_to)
        Reversed(seq) == [i \in 1..Len(seq) |-> seq[Len(seq) + 1 - i]]
    IN  IF IsSome(q.date_to) THEN Reversed(SelectSeq(results, Keep)) ELSE results

FilterDateTo(results, q) ==
    LET Keep(r) == r.timestamp <= Unwrap(q.date_to) IN
    IF IsSome(q.date_to) THEN SelectSeq(results, Keep) ELSE results

(* project filters where an empty list falls back to project_filter *)
FilterProjectListOrSingle(results, q) ==
    LET InList(r) == Contains(Unwrap(q.project_filters), r.project_path)
        Same(r) == r.project_path = Unwrap(q.project_filter)
    IN  IF IsSome(q.project_filters) /\ Unwrap(q.project_filters) # <<>>
        THEN SelectSeq(results, InList)
        ELSE IF IsSome(q.project_filter) THEN SelectSeq(results, Same)
        ELSE results

FilterProject(results, q) ==
    LET InList(r) == Contains(Unwrap(q.project_filters), r.project_path)
        Same(r) == r.project_path = Unwrap(q.project_filter)
    IN  IF IsSome(q.project_filters)
        THEN (IF Unwrap(q.project_filters) # <<>> THEN SelectSeq(results, InList)
              ELSE results)
        ELSE IF IsSome(q.project_filter) THEN SelectSeq(results, Same)
        ELSE results

FilterFavorites(results, q) ==
    LET Keep(r) == r.is_favorite IN
    IF IsSome(q.favorites_only) /\ Unwrap(q.favorites_only)
    THEN SelectSeq(results, Keep) ELSE results

Search(conn, q, today) ==
    IF ~conn THEN [result |-> NotConnected, results |-> <<>>]
    ELSE IF q.keywords = <<>> THEN [result |-> OK, results |-> <<>>]
    ELSE [ result |-> OK,
           results |-> FilterFavorites(FilterProject(FilterDateTo(
                           FilterDateFrom(Candidates(q, today), q), q), q), q) ]

DefaultQuery ==
    [ keywords |-> <<>>, mode |-> "And", project_filter |-> None,
      project_filters |-> None, date_from |-> None, date_to |-> None,
      favorites_only |-> None, limit |-> Some(DefaultLimit) ]

MarkAsFavorite(conn, id) == IF ~conn THEN NotConnected ELSE OK

UnmarkAsFavorite(conn, id) == IF ~conn THEN NotConnected ELSE OK

(* rank_results.  rank is an f64: NaN is the rank that compares with       *)
(* nothing, itself included.                                               *)
NaN == -1

(* f64::partial_cmp *)
PartialCmp(a, b) ==
    IF a = NaN \/ b = NaN THEN None
    ELSE IF a < b THEN Some("Less")
    ELSE IF a > b THEN Some("Greater")
    ELSE Some("Equal")

UnwrapOr(o, d) == IF IsSome(o) THEN Unwrap(o) ELSE d

(* |a, b| b.rank.partial_cmp(&a.rank).unwrap_or(Ordering::Equal) *)
CompareRank(a, b) == UnwrapOr(PartialCmp(b.rank, a.rank), "Equal")

(* sort_by asks for a total order: here, that "not after" is transitive   *)
NotAfter(a, b) == CompareRank(a, b) \in {"Less", "Equal"}

IsTotalOrder(results) ==
    \A i, j, k \in 1..Len(results) :
        (NotAfter(results[i], results[j]) /\ NotAfter(results[j], results[k]))
        => NotAfter(results[i], results[k])

Front(seq) == SubSeq(seq, 1, Len(seq) - 1)

Last(seq) == seq[Len(seq)]

(* the stable sort: an element moves before the ones it is Less than *)
RECURSIVE InsertTail(_, _)
InsertTail(sorted, x) ==
    IF sorted = <<>> THEN <<x>>
    ELSE IF CompareRank(x, Last(sorted)) = "Less"
    THEN Append(InsertTail(Front(sorted), x), Last(sorted))
    ELSE Append(sorted, x)

RECURSIVE SortBy(_)
SortBy(results) ==
    IF results = <<>> THEN <<>>
    ELSE InsertTail(SortBy(Front(results)), Last(results))

Reorderings(seq) ==
    { [i \in 1..Len(seq) |-> seq[f[i]]] :
        f \in {g \in [1..Len(seq) -> 1..Len(seq)] :
                  \A i, j \in 1..Len(seq) : g[i] = g[j] => i = j} }

Panicked == "panicked"

(* the outcomes of rank_results: the stable sort when the comparison is a  *)
(* total order; when it is not, sort_by may panic and otherwise leaves the *)
(* elements in an unspecified order                                        *)
RankResults(results) ==
    IF IsTotalOrder(results) THEN {[result |-> OK, results |-> SortBy(results)]}
    ELSE {[result |-> OK, results |-> p] : p \in Reorderings(results)}
             \cup {[result |-> Panicked, results |-> <<>>]}

---------------------------------------------------------------------------
(* The state machine.  last is the latest call: its name, what it          *)
(* returned, the statements it handed to execute (with their results), and *)
(* for bulk_import the batch, the result of each message, the statistics   *)
(* and the store after each message; for search, the results.              *)

Call(op, result, log) ==
    [ op |-> op, result |-> result, log |-> log, input |-> <<>>, batch |-> <<>>,
      outcomes |-> <<>>, stats |-> NewStats, trail |-> <<>>, results |-> <<>> ]

(* no call is in progress and the result of the latest one has been taken *)
Idle == Call("idle", OK, <<>>)

BatchMessages == {BaseMessage, OtherMessage, ApostropheMessage}

BatchesOf(messages, n) == UNION {[1..k -> messages] : k \in 0..n}

Batches == BatchesOf(BatchMessages, MaxBatch)

Queries ==
    { DefaultQuery,
      [DefaultQuery EXCEPT !.keywords = <<"test">>],
      [DefaultQuery EXCEPT !.keywords = <<"rust", "python">>, !.mode = "Or"] }

FavoriteIds == {1, 2}

(* Mutex::new(false): not poisoned, held by no thread (0) *)
NewMutex == [poisoned |-> FALSE, holder |-> 0]

Threads == {1, 2}

(* a thread between two calls on the connector *)
IdleThread ==
    [ op |-> "idle", pc |-> "idle", result |-> "", max_retries |-> 0,
      retry_delay_ms |-> 0, attempts |-> 0, tries |-> 0, waits |-> <<>>,
      poison_seen |-> FALSE, ran |-> None ]

(* App::default *)
NewApp ==
    [ state |-> "SearchInput", search_input |-> <<>>, search_results |-> <<>>,
      selected_index |-> 0, should_quit |-> FALSE ]

(* run_app at the top of its loop.  key, before and searched record the    *)
(* latest key event handled, the App before it, and whether the iteration  *)
(* called perform_search.                                                  *)
Running ==
    [ pc |-> "loop", result |-> "", key |-> [code |-> "None", c |-> ""],
      before |-> NewApp, searched |-> FALSE ]

Init ==
    /\ connected = FALSE
    /\ store = EmptyStore
    /\ clock = 1
    /\ last = Idle
    /\ mutex = NewMutex
    /\ threads = [t \in Threads |-> IdleThread]
    /\ app = NewApp
    /\ run = Running

(* RealDuckDBConnection::connect: opening the database can fail *)
Connect ==
    \E opened \in BOOLEAN :
        /\ last = Idle
        /\ connected' = (connected \/ opened)
        /\ last' = Call("connect", IF opened THEN OK ELSE "Failed to connect to DuckDB", <<>>)
        /\ UNCHANGED <<mutex, threads, app, run, store, clock>>

Disconnect ==
    /\ last = Idle
    /\ connected' = FALSE
    /\ last' = Call("disconnect", OK, <<>>)
    /\ UNCHANGED <<mutex, threads, app, run, store, clock>>

(* CURRENT_TIMESTAMP moves on *)
Tick ==
    /\ last = Idle
    /\ clock < MaxClock
    /\ clock' = clock + 1
    /\ UNCHANGED <<mutex, threads, app, run, connected, store, last>>

(* the caller takes the result of the call *)
Return ==
    /\ last # Idle
    /\ last' = Idle
    /\ UNCHANGED <<mutex, threads, app, run, connected, store, clock>>

Returns(op, input, r) ==
    /\ last = Idle
    /\ \A row \in r.db.rows : row.id <= MaxRowId
    /\ store' = r.db
    /\ last' = [Call(op, r.result, r.log) EXCEPT !.input = input]
    /\ UNCHANGED <<mutex, threads, app, run, connected, clock>>

(* In the calls below, faultsAt is the set of choices of the statement the  *)
(* engine fails (0: none).                                                 *)

CreateSchemaCall(faultsAt) ==
    \E faultAt \in faultsAt :
        Returns("create_schema", <<>>, CreateSchema(connected, store, clock, faultAt))

CreateFtsIndexesCall(faultsAt) ==
    \E faultAt \in faultsAt :
        Returns("create_fts_indexes", <<>>,
                CreateFtsIndexes(connected, store, clock, faultAt))

DropSchemaCall(faultsAt) ==
    \E faultAt \in faultsAt :
        Returns("drop_schema", <<>>, DropSchema(connected, store, clock, faultAt))

MigrateUpCall(faultsAt) ==
    \E faultAt \in faultsAt :
        Returns("migrate_up", <<>>, MigrateUp(connected, store, clock, faultAt))

MigrateDownCall(faultsAt) ==
    \E faultAt \in faultsAt :
        Returns("migrate_down", <<>>, MigrateDown(connected, store, clock, faultAt))

ImportSingleConversationCall(messages, paths, faultsAt) ==
    \E m \in messages, project_path \in paths, faultAt \in faultsAt :
        Returns("import_single_conversation", <<m, project_path>>,
            ImportSingleConversation(connected, store, m, project_path, clock, faultAt))

UpdateConversationCall(messages, paths, faultsAt) ==
    \E m \in messages, project_path \in paths, faultAt \in faultsAt :
        Returns("update_conversation", <<m, project_path>>,
            UpdateConversation(connected, store, m, project_path, clock, faultAt))

ImportWithDuplicateCheckCall(messages, paths, faultsAt) ==
    \E m \in messages, project_path \in paths, faultAt \in faultsAt :
        Returns("import_with_duplicate_check", <<m, project_path>>,
            ImportWithDuplicateCheck(connected, store, m, project_path, clock, faultAt))

CheckUuidExistsCall(messages) ==
    \E m \in messages :
        LET c == CheckUuidExists(connected, store, m.uuid) IN
        /\ last = Idle
        /\ last' = [Call("check_uuid_exists",
                         IF c.result # OK THEN c.result
                         ELSE IF c.exists THEN "Ok(true)" ELSE "Ok(false)", <<>>)
                    EXCEPT !.input = <<m>>]
        /\ UNCHANGED <<mutex, threads, app, run, connected, store, clock>>

BulkReturns(batch, project_path, r) ==
    /\ last = Idle
    /\ store' = r.db
    /\ last' = [Call("bulk_import", r.result, r.log)
                EXCEPT !.input = <<project_path>>, !.batch = batch,
                       !.outcomes = r.outcomes, !.stats = r.stats,
                       !.trail = r.trail]
    /\ UNCHANGED <<mutex, threads, app, run, connected, clock>>

BulkImportCall(batches, paths) ==
    \E batch \in batches, project_path \in paths :
        \E faults \in SUBSET (1..Len(batch)) :
            BulkReturns(batch, project_path,
                        BulkImport(connected, store, batch, project_path, clock, faults))

SearchReturns(q, r) ==
    /\ last = Idle
    /\ last' = [Call("search", r.result, <<>>)
                EXCEPT !.input = <<q>>, !.results = r.results]
    /\ UNCHANGED <<mutex, threads, app, run, connected, store, clock>>

SearchCall(queries) ==
    /\ last = Idle
    /\ \E q \in queries : SearchReturns(q, Search(connected, q, Today))

MarkAsFavoriteCall ==
    \E id \in FavoriteIds :
        /\ last = Idle
        /\ last' = [Call("mark_as_favorite", MarkAsFavorite(connected, id), <<>>)
                    EXCEPT !.input = <<id>>]
        /\ UNCHANGED <<mutex, threads, app, run, connected, store, clock>>

UnmarkAsFavoriteCall ==
    \E id \in FavoriteIds :
        /\ last = Idle
        /\ last' = [Call("unmark_as_favorite", UnmarkAsFavorite(connected, id), <<>>)
                    EXCEPT !.input = <<id>>]
        /\ UNCHANGED <<mutex, threads, app, run, connected, store, clock>>

(* a row of conversations is deleted (the delete trigger fires) *)
Deleted(r) ==
    /\ last = Idle
    /\ connected
    /\ store' = r.db
    /\ last' = Call("delete", IF r.ok THEN OK ELSE ExecFailed, <<>>)
    /\ UNCHANGED <<mutex, threads, app, run, connected, clock>>

DeleteRow == \E id \in RowIds(store) : Deleted(ExecDelete(store, id))

---------------------------------------------------------------------------
(* Spec: ingestion of single messages into a store whose schema is         *)
(* installed by migrate_up.                                                *)

Next ==
    \/ Connect
    \/ Disconnect
    \/ Tick
    \/ MigrateUpCall({0})
    \/ ImportSingleConversationCall(Messages, ProjectPaths, {0, 1})
    \/ UpdateConversationCall(Messages, ProjectPaths, {0, 1})
    \/ ImportWithDuplicateCheckCall(Messages, ProjectPaths, {0, 1})
    \/ CheckUuidExistsCall(Messages)
    \/ Return

Spec == Init /\ [][Next]_vars

(* SpecDedup: import_with_duplicate_check of messages whose texts hold no  *)
(* quote character.                                                        *)

PlainMessages == {BaseMessage, RevisedMessage, OtherMessage}

NextDedup ==
    \/ Connect
    \/ Disconnect
    \/ Tick
    \/ MigrateUpCall({0})
    \/ ImportWithDuplicateCheckCall(PlainMessages, ProjectPaths, {0, 1})
    \/ Return

SpecDedup == Init /\ [][NextDedup]_vars

(* SpecBulk: bulk_import and the upsert it is made of.                     *)

NextBulk ==
    \/ Connect
    \/ Disconnect
    \/ Tick
    \/ MigrateUpCall({0})
    \/ ImportWithDuplicateCheckCall(BatchMessages, {<<"/p">>}, {0, 1})
    \/ BulkImportCall(Batches, {<<"/p">>})
    \/ Return

SpecBulk == Init /\ [][NextBulk]_vars

(* SpecSchema: the schema calls, with every choice of the failing          *)
(* statement, and rows inserted, updated and deleted in between.           *)

NextSchema ==
    \/ Connect
    \/ Disconnect
    \/ CreateSchemaCall(0..5)
    \/ CreateFtsIndexesCall(0..2)
    \/ DropSchemaCall(0..2)
    \/ MigrateUpCall(0..7)
    \/ MigrateDownCall(0..2)
    \/ ImportSingleConversationCall({BaseMessage, OtherMessage}, {<<"/p">>}, {0})
    \/ UpdateConversationCall({RevisedMessage}, {<<"/p">>}, {0})
    \/ DeleteRow
    \/ Return

SpecSchema == Init /\ [][NextSchema]_vars

(* SpecCalls: every store-touching call, on a connected and on a           *)
(* disconnected connection.                                                *)

NextCalls ==
    \/ Connect
    \/ Disconnect
    \/ CreateSchemaCall({0})
    \/ CreateFtsIndexesCall({0})
    \/ DropSchemaCall({0})
    \/ MigrateUpCall({0})
    \/ MigrateDownCall({0})
    \/ ImportSingleConversationCall({BaseMessage}, {<<"/p">>}, {0, 1})
    \/ UpdateConversationCall({RevisedMessage}, {<<"/p">>}, {0, 1})
    \/ ImportWithDuplicateCheckCall({BaseMessage}, {<<"/p">>}, {0, 1})
    \/ CheckUuidExistsCall({BaseMessage})
    \/ BulkImportCall(BatchesOf({BaseMessage}, MaxBatch), {<<"/p">>})
    \/ SearchCall(Queries)
    \/ MarkAsFavoriteCall
    \/ UnmarkAsFavoriteCall
    \/ Return

SpecCalls == Init /\ [][NextCalls]_vars

---------------------------------------------------------------------------
(* SpecSearch: search over queries with every field set or unset, and the  *)
(* favorite toggles.                                                       *)

KeywordLists ==
    { <<>>, <<"test">>, <<"Test">>, <<"test", "rust">>, <<"rust", "programming">>,
      <<"python">>, <<"rust", "python">> }

ProjectScopes == {"/test/project", "/old/project"}

ProjectLists ==
    { <<>>, <<"/old/project">>, <<"/test/project">>, <<"/test/project", "/other">> }

DateBounds == {Today - 3, Today - 2}

Limits == {None, Some(DefaultLimit), Some(1)}

OptionOf(S) == {None} \cup {Some(x) : x \in S}

SearchQueries ==
    [ keywords : KeywordLists, mode : {"And", "Or"},
      project_filter : OptionOf(ProjectScopes),
      project_filters : OptionOf(ProjectLists),
      date_from : OptionOf(DateBounds), date_to : OptionOf(DateBounds),
      favorites_only : OptionOf(BOOLEAN), limit : Limits ]

NextSearch ==
    \/ Connect
    \/ Disconnect
    \/ SearchCall(SearchQueries)
    \/ MarkAsFavoriteCall
    \/ UnmarkAsFavoriteCall
    \/ Return

SpecSearch == Init /\ [][NextSearch]_vars

---------------------------------------------------------------------------
(* Properties.                                                             *)

Range(seq) == {seq[i] : i \in 1..Len(seq)}

(* no statement of the call was failed by the engine for a reason of its   *)
(* own                                                                     *)
NoFault(call) == \A i \in 1..Len(call.log) : ~call.log[i].fault

IsError(result) == result \notin {OK, Inserted, Updated, "Skipped"}

RowsWithUuid(db, uuid) == {r \in db.rows : r.uuid = uuid}

(* C1: after any sequence of import_with_duplicate_check calls on a        *)
(* connected store there is at most one record per uuid; the first         *)
(* ingestion of a uuid returns Inserted and creates the record, every      *)
(* later ingestion of the same uuid returns Updated and creates no second  *)
(* record.                                                                 *)
C1_UpsertInsertsOnceThenUpdates ==
    [][ ( /\ last'.op = "import_with_duplicate_check"
          /\ connected /\ Table \in store.objects /\ NoFault(last') )
        => LET uuid == last'.input[1].uuid IN
           /\ \A u \in {m.uuid : m \in Messages} : Cardinality(RowsWithUuid(store', u)) <= 1
           /\ IF RowsWithUuid(store, uuid) = {}
              THEN last'.result = Inserted /\ Cardinality(RowsWithUuid(store', uuid)) = 1
              ELSE last'.result = Updated /\ Cardinality(store'.rows) = Cardinality(store.rows)
      ]_vars

(* C2: update_conversation of a stored uuid leaves the record's uuid,      *)
(* created_at and is_favorite as they were, and every other field takes    *)
(* the value of the new message and project_path.                          *)
C2_UpdateKeepsKeyCreatedFavorite ==
    [][ (last'.op = "update_conversation" /\ last'.result = OK)
        => LET m == last'.input[1]
               project_path == last'.input[2]
           IN  \A old \in RowsWithUuid(store, m.uuid) :
                   \E new \in store'.rows :
                       /\ new.id = old.id
                       /\ new.uuid = old.uuid
                       /\ new.created_at = old.created_at
                       /\ new.is_favorite = old.is_favorite
                       /\ new.parent_uuid = m.parent_uuid
                       /\ new.session_id = m.session_id
                       /\ new.user_type = m.user_type
                       /\ new.message_type = m.message_type
                       /\ new.message_role = m.message.role
                       /\ new.message_content = MessageContentText(m)
                       /\ new.project_path = project_path
                       /\ new.cwd = m.cwd
                       /\ new.git_branch = m.git_branch
                       /\ new.version = m.version
                       /\ new.timestamp = m.timestamp
      ]_vars

(* C3: the statement text import_single_conversation and                   *)
(* update_conversation hand to execute is the same fixed command whatever  *)
(* the message and project path; field values reach the store only as      *)
(* bound values.                                                           *)
C3_StatementTextIsFixed ==
    /\ last.op = "import_single_conversation"
       => \A i \in 1..Len(last.log) : last.log[i].text = INSERT_CONVERSATION
    /\ last.op = "update_conversation"
       => \A i \in 1..Len(last.log) : last.log[i].text = UPDATE_CONVERSATION

StoreTouchingCalls ==
    { "import_single_conversation", "check_uuid_exists", "update_conversation",
      "create_schema", "create_fts_indexes", "drop_schema",
      "mark_as_favorite", "unmark_as_favorite" }

IsStoreTouching(call) ==
    \/ call.op \in StoreTouchingCalls
    \/ call.op = "search" /\ call.input[1].keywords # <<>>

(* C4: whenever the connection is not connected, each store-touching call *)
(* returns the not-connected error and hands no statement to execute (the  *)
(* store is left as it is).                                                *)
C4_NotConnectedFailsFast ==
    [][ (~connected /\ IsStoreTouching(last'))
        => (last'.result = NotConnected /\ last'.log = <<>> /\ store' = store)
      ]_vars

C4_Witness ==
    /\ ~connected
    /\ last.op = "drop_schema"
    /\ last.result = NotConnected
    /\ store.rows # {}

StoreBefore(db, call, k) == IF k = 1 THEN db ELSE call.trail[k - 1]

(* C5: when an upsert returns an error the store is exactly as it was      *)
(* before the call, and within a batch the records committed by the        *)
(* earlier upserts are untouched.                                          *)
C5_FailedUpsertLeavesStore ==
    [][ /\ (last'.op = "import_with_duplicate_check" /\ IsError(last'.result))
           => store' = store
        /\ last'.op = "bulk_import"
           => \A k \in 1..Len(last'.outcomes) :
                  IsError(last'.outcomes[k])
                  => last'.trail[k] = StoreBefore(store, last', k)
      ]_vars

C5_Witness ==
    /\ last.op = "bulk_import"
    /\ Len(last.outcomes) = 2
    /\ last.outcomes[1] = Inserted
    /\ IsError(last.outcomes[2])
    /\ last.trail[1].rows # {}
    /\ store = last.trail[1]

(* C6: bulk_import attempts every message once and in order, always        *)
(* returns Ok, and its statistics add up to the number of messages, with   *)
(* errors the number of messages whose upsert failed.                      *)
C6_BulkImportCountsEveryMessage ==
    last.op = "bulk_import"
    => /\ last.result = OK
       /\ Len(last.outcomes) = Len(last.batch)
       /\ last.stats.inserted + last.stats.updated + last.stats.skipped
              + last.stats.errors = Len(last.batch)
       /\ last.stats.errors
              = Cardinality({k \in 1..Len(last.outcomes) : IsError(last.outcomes[k])})
       /\ TotalProcessed(last.stats)
              = Cardinality({k \in 1..Len(last.outcomes) : ~IsError(last.outcomes[k])})
       /\ connected
          => /\ Len(last.log) = Len(last.batch)
             /\ \A k \in 1..Len(last.batch) :
                    last.log[k].text = InsertQuery(last.batch[k], last.input[1])

C6_Witness ==
    /\ last.op = "bulk_import"
    /\ Len(last.batch) = 2
    /\ IsError(last.outcomes[1])
    /\ last.outcomes[2] = Inserted
    /\ last.stats.errors = 1

DistinctUuids(batch) ==
    \A i, j \in 1..Len(batch) : batch[i].uuid = batch[j].uuid => i = j

(* C7: bulk ingestion of M messages with pairwise distinct uuids into an   *)
(* empty, connected store returns inserted = M, updated = skipped =        *)
(* errors = 0, total_processed() = M, and leaves M records.                *)
C7_BulkOfDistinctUuidsInsertsAll ==
    [][ ( /\ last'.op = "bulk_import"
          /\ connected /\ Table \in store.objects /\ store.rows = {}
          /\ DistinctUuids(last'.batch) /\ NoFault(last') )
        => /\ last'.stats.inserted = Len(last'.batch)
           /\ last'.stats.updated = 0
           /\ last'.stats.skipped = 0
           /\ last'.stats.errors = 0
           /\ TotalProcessed(last'.stats) = Len(last'.batch)
           /\ Cardinality(store'.rows) = Len(last'.batch)
      ]_vars

FtsInstalled(db) == {Table, FtsTable} \cup Triggers \subseteq db.objects

(* C8: once the schema and the full-text index with its triggers are       *)
(* installed, the row ids of the index are the row ids of the table in     *)
(* every committed state, one index row per table row.                     *)
C8_IndexPopulationEqualsTable ==
    FtsInstalled(store)
    => /\ FtsRowIds(store) = RowIds(store)
       /\ Cardinality(store.fts) = Cardinality(store.rows)

Creates(op) ==
    IF op = "create_schema" THEN {Table} \cup TableIndexes
    ELSE IF op = "create_fts_indexes" THEN {FtsTable} \cup Triggers
    ELSE SchemaObjects

Again(op, db) ==
    IF op = "create_schema" THEN CreateSchema(TRUE, db, clock, 0)
    ELSE IF op = "create_fts_indexes" THEN CreateFtsIndexes(TRUE, db, clock, 0)
    ELSE MigrateUp(TRUE, db, clock, 0)

(* create_fts_indexes needs the table create_schema makes *)
SchemaFirst(op, db) == op = "create_fts_indexes" => Table \in db.objects

(* C9: create_schema and create_fts_indexes (and migrate_up) are            *)
(* idempotent: on a connected store that runs the statements they succeed  *)
(* every time, leave the stored records alone, and a further call leaves   *)
(* the tables, indexes and triggers as the first one did.                  *)
C9_SchemaCreationIsIdempotent ==
    [][ ( /\ last'.op \in {"create_schema", "create_fts_indexes", "migrate_up"}
          /\ connected /\ NoFault(last') /\ SchemaFirst(last'.op, store) )
        => /\ last'.result = OK
           /\ store'.objects = store.objects \cup Creates(last'.op)
           /\ store'.rows = store.rows
           /\ store'.fts = store.fts
           /\ Again(last'.op, store').result = OK
           /\ Again(last'.op, store').db = store'
      ]_vars

C9_Witness ==
    /\ last.op = "migrate_up"
    /\ last.result = OK
    /\ store.rows # {}
    /\ store.fts # {}
    /\ store.objects = SchemaObjects

(* C10: in every run of drop_schema and migrate_down the full-text index   *)
(* is dropped before the table: the table drop is never executed before    *)
(* the index drop has succeeded, and when the index drop fails the table   *)
(* is left in place.                                                       *)
C10_IndexDroppedBeforeTable ==
    [][ last'.op \in {"drop_schema", "migrate_down"}
        => /\ \A i \in 1..Len(last'.log) :
                  last'.log[i].text = DROP_CONVERSATIONS_TABLE
                  => \E j \in 1..(i - 1) :
                         /\ last'.log[j].text = DROP_FTS_TABLE
                         /\ last'.log[j].res = OK
           /\ (connected => last'.log # <<>> /\ last'.log[1].text = DROP_FTS_TABLE)
           /\ (last'.log # <<>> /\ last'.log[1].res # OK)
              => (Len(last'.log) = 1 /\ store' = store)
      ]_vars

C10_Witness ==
    /\ last.op = "drop_schema"
    /\ Len(last.log) = 1
    /\ last.log[1].text = DROP_FTS_TABLE
    /\ last.log[1].res # OK
    /\ Table \in store.objects
    /\ store.rows # {}

---------------------------------------------------------------------------
(* JsonlParser.  A document is a sequence of characters: the line feed, the *)
(* space, and three texts that stand for whole JSON objects (the lines of  *)
(* two messages and a malformed one).                                      *)

NL == "\n"
SP == " "
JsonOfBase == "{\"uuid\":\"u1\",...}"
JsonOfOther == "{\"uuid\":\"u2\",...}"
InvalidJson == "{invalid json line}"

ParseError == "Failed to parse JSON message"

ParseOk(m) == [ok |-> TRUE, message |-> Some(m), error |-> ""]

ParseErr == [ok |-> FALSE, message |-> None, error |-> ParseError]

(* serde_json::from_str: one JSON object and nothing else *)
ParseSingleMessage(json_str) ==
    IF json_str = <<JsonOfBase>> THEN ParseOk(BaseMessage)
    ELSE IF json_str = <<JsonOfOther>> THEN ParseOk(OtherMessage)
    ELSE ParseErr

(* the position of the first line feed, 0 when there is none *)
RECURSIVE FirstNewline(_, _)
FirstNewline(text, i) ==
    IF i > Len(text) THEN 0
    ELSE IF text[i] = NL THEN i
    ELSE FirstNewline(text, i + 1)

(* str::lines: the text between line feeds; a final line feed starts no    *)
(* further line                                                            *)
RECURSIVE Lines(_)
LinesAt(text, i) ==
    IF i = 0 THEN <<text>>
    ELSE <<SubSeq(text, 1, i - 1)>> \o Lines(SubSeq(text, i + 1, Len(text)))

Lines(text) == IF text = <<>> THEN <<>> ELSE LinesAt(text, FirstNewline(text, 1))

RECURSIVE TrimStart(_)
TrimStart(line) ==
    IF line # <<>> /\ Head(line) = SP THEN TrimStart(Tail(line)) ELSE line

RECURSIVE TrimEnd(_)
TrimEnd(line) ==
    IF line # <<>> /\ line[Len(line)] = SP
    THEN TrimEnd(SubSeq(line, 1, Len(line) - 1))
    ELSE line

(* str::trim *)
Trim(line) == TrimEnd(TrimStart(line))

(* let message = self.parse_single_message(trimmed)?; messages.push(message) *)
RECURSIVE ParseLines(_, _)
PushOrReturn(lines, messages, r) ==
    IF ~r.ok THEN [result |-> r.error, messages |-> <<>>]
    ELSE ParseLines(Tail(lines), Append(messages, Unwrap(r.message)))

ParseLines(lines, messages) ==
    IF lines = <<>> THEN [result |-> OK, messages |-> messages]
    ELSE IF Trim(Head(lines)) = <<>> THEN ParseLines(Tail(lines), messages)
    ELSE PushOrReturn(lines, messages, ParseSingleMessage(Trim(Head(lines))))

(* the loop that collects every result, skipping none *)
RECURSIVE CollectLines(_, _)
CollectLines(lines, messages) ==
    IF lines = <<>> THEN [result |-> OK, messages |-> messages]
    ELSE IF ParseSingleMessage(Trim(Head(lines))).ok
    THEN CollectLines(Tail(lines),
                      Append(messages, Unwrap(ParseSingleMessage(Trim(Head(lines))).message)))
    ELSE CollectLines(Tail(lines), messages)

(* parse_multiple_messages that passes over the lines that do not decode *)
ParseMultipleMessagesLenient(jsonl_content) == CollectLines(Lines(jsonl_content), <<>>)

ParseMultipleMessages(jsonl_content) == ParseLines(Lines(jsonl_content), <<>>)

(* for (line_num, line) in jsonl_content.lines().enumerate() *)
RECURSIVE EnumerateLines(_, _, _)
EnumerateLines(lines, line_num, results) ==
    IF lines = <<>> THEN results
    ELSE EnumerateLines(Tail(lines), line_num + 1,
             IF Trim(Head(lines)) # <<>>
             THEN Append(results, [line |-> line_num + 1,
                                   result |-> ParseSingleMessage(Trim(Head(lines)))])
             ELSE results)

(* the results numbered by their own position *)
ParseMultipleMessagesSkipErrorsRenumbered(jsonl_content) ==
    [k \in 1..Len(EnumerateLines(Lines(jsonl_content), 0, <<>>)) |->
        [EnumerateLines(Lines(jsonl_content), 0, <<>>)[k] EXCEPT !.line = k]]

ParseMultipleMessagesSkipErrors(jsonl_content) ==
    EnumerateLines(Lines(jsonl_content), 0, <<>>)

---------------------------------------------------------------------------
(* The wire format of a ClaudeMessage: the JSON object that the derived    *)
(* Serialize writes and the derived Deserialize reads, with the camelCase  *)
(* and "type" renames.                                                     *)

JsonBool(b) == [kind |-> "bool", s |-> <<b>>]

(* Option<String>: None is written as null, Some(s) as the string *)
SerializeOptionString(o) == IF IsSome(o) THEN JsonString(Unwrap(o)) ELSE JsonNull

(* Option<Value>: None is written as null, Some(v) as v itself *)
SerializeOptionValue(o) == IF IsSome(o) THEN Unwrap(o) ELSE JsonNull

SerializeMessageContent(c) ==
    [ role |-> SerializeOptionString(c.role),
      content |-> SerializeOptionValue(c.content),
      id |-> SerializeOptionString(c.id),
      type |-> SerializeOptionString(c.content_type),
      model |-> SerializeOptionString(c.model) ]

SerializeClaudeMessage(m) ==
    [ parentUuid |-> SerializeOptionString(m.parent_uuid),
      isSidechain |-> JsonBool(m.is_sidechain),
      userType |-> JsonString(m.user_type),
      cwd |-> JsonString(m.cwd),
      sessionId |-> JsonString(m.session_id),
      version |-> JsonString(m.version),
      gitBranch |-> SerializeOptionString(m.git_branch),
      type |-> JsonString(m.message_type),
      message |-> SerializeMessageContent(m.message),
      uuid |-> JsonString(m.uuid),
      timestamp |-> JsonString(ToRfc3339(m.timestamp)) ]

(* Option<T>::deserialize: the JSON null is None, whatever T is; any other *)
(* value is Some of T's reading of it                                      *)
DeserializeOptionString(v) == IF v.kind = "null" THEN None ELSE Some(v.s)

DeserializeOptionValue(v) == IF v.kind = "null" THEN None ELSE Some(v)

DeserializeMessageContent(j) ==
    [ role |-> DeserializeOptionString(j.role),
      content |-> DeserializeOptionValue(j.content),
      id |-> DeserializeOptionString(j.id),
      content_type |-> DeserializeOptionString(j.type),
      model |-> DeserializeOptionString(j.model) ]

(* a field of the wrong JSON type makes the derived Deserialize fail *)
WellTyped(j) ==
    /\ \A v \in {j.parentUuid, j.gitBranch, j.message.role, j.message.id,
                 j.message.type, j.message.model} : v.kind \in {"null", "string"}
    /\ \A v \in {j.userType, j.cwd, j.sessionId, j.version, j.type, j.uuid} :
           v.kind = "string"
    /\ j.isSidechain.kind = "bool"
    /\ j.timestamp.kind = "string" /\ IsTimestampText(j.timestamp.s)

DeserializeClaudeMessage(j) ==
    IF ~WellTyped(j) THEN ParseErr
    ELSE ParseOk(
        [ uuid |-> j.uuid.s, parent_uuid |-> DeserializeOptionString(j.parentUuid),
          is_sidechain |-> j.isSidechain.s[1],
          user_type |-> j.userType.s, cwd |-> j.cwd.s, session_id |-> j.sessionId.s,
          version |-> j.version.s,
          git_branch |-> DeserializeOptionString(j.gitBranch),
          message_type |-> j.type.s, timestamp |-> ParseTimestamp(j.timestamp.s),
          message |-> DeserializeMessageContent(j.message) ])

---------------------------------------------------------------------------
(* DuckDBConnector used by several threads.  `connected` is the bool in    *)
(* the Mutex, `mutex` tells whether the Mutex is poisoned and which thread *)
(* holds its guard, and threads[t] is the call thread t is in: its         *)
(* position (pc), the locals of connect_with_retry, and what it returned.  *)
(* tries, waits, poison_seen and ran record what happened: the connect     *)
(* attempts made, the delays slept, whether lock() returned a PoisonError, *)
(* and the value of the flag at the moment the statement ran.              *)

LockPoisoned == "Lock poisoned"
RetryExhausted == "Failed to connect after max_retries attempts"
RetryLogicFailed == "Connection retry logic failed"

BoolText(b) == IF b THEN "true" ELSE "false"

ConnectorOps == {"connect", "disconnect", "is_connected", "execute"}

Finished(th, result) == [th EXCEPT !.pc = "done", !.result = result]

(* a thread calls connect, disconnect, is_connected or execute *)
ConnectorCall(t, ops) ==
    /\ threads[t].pc = "idle"
    /\ \E op \in ops :
           threads' = [threads EXCEPT ![t] = [IdleThread EXCEPT !.op = op, !.pc = "lock"]]
    /\ UNCHANGED <<connected, store, clock, last, mutex, app, run>>

(* a thread calls connect_with_retry: let mut attempts = 0 *)
ConnectWithRetryCall(t, retries, delays) ==
    /\ threads[t].pc = "idle"
    /\ \E n \in retries, d \in delays :
           threads' = [threads EXCEPT ![t] =
                          [IdleThread EXCEPT !.op = "connect_with_retry", !.pc = "while",
                                             !.max_retries = n, !.retry_delay_ms = d]]
    /\ UNCHANGED <<connected, store, clock, last, mutex, app, run>>

(* while attempts < self.config.max_retries { match self.connect() ... *)
RetryWhile(t) ==
    /\ threads[t].op = "connect_with_retry"
    /\ threads[t].pc = "while"
    /\ threads' = [threads EXCEPT ![t] =
                      IF @.attempts < @.max_retries
                      THEN [@ EXCEPT !.pc = "lock", !.tries = @ + 1]
                      ELSE Finished(@, RetryLogicFailed)]
    /\ UNCHANGED <<connected, store, clock, last, mutex, app, run>>

(* the delay that is always retry_delay_ms *)
DelayMsConstant(retry_delay_ms, attempts) == retry_delay_ms

(* let delay_ms = self.config.retry_delay_ms * (attempts as u64) *)
DelayMs(retry_delay_ms, attempts) == retry_delay_ms * attempts

(* Err(e) => { attempts += 1; if attempts >= max_retries { return Err } ... *)
RetryFailed(th, attempts) ==
    IF attempts >= th.max_retries
    THEN [Finished(th, RetryExhausted) EXCEPT !.attempts = attempts]
    ELSE [th EXCEPT !.attempts = attempts, !.pc = "sleep",
                    !.waits = Append(@, DelayMs(th.retry_delay_ms, attempts))]

(* what each operation makes of the PoisonError that lock() returned *)
OnPoisonError(th) ==
    CASE th.op \in {"connect", "disconnect"} -> Finished(th, LockPoisoned)
      [] th.op = "is_connected" -> Finished(th, BoolText(FALSE))
      [] th.op = "execute" -> Finished(th, ExecNotConnected)
      [] th.op = "connect_with_retry" -> RetryFailed(th, th.attempts + 1)

(* self.connected.lock(): waits until no thread holds the guard; on a      *)
(* poisoned Mutex it returns the PoisonError, and the guard in it is       *)
(* dropped at once                                                         *)
Lock(t) ==
    /\ threads[t].pc = "lock"
    /\ mutex.holder = 0
    /\ IF mutex.poisoned
       THEN /\ threads' = [threads EXCEPT ![t] =
                              OnPoisonError([@ EXCEPT !.poison_seen = TRUE])]
            /\ UNCHANGED mutex
       ELSE /\ threads' = [threads EXCEPT ![t].pc = "locked"]
            /\ mutex' = [mutex EXCEPT !.holder = t]
    /\ UNCHANGED <<connected, store, clock, last, app, run>>

(* the flag after the body that runs under the guard *)
FlagAfter(op, flag) ==
    CASE op \in {"connect", "connect_with_retry"} -> TRUE
      [] op = "disconnect" -> FALSE
      [] OTHER -> flag

(* the thread after the body that runs under the guard: connect and        *)
(* disconnect return Ok, is_connected returns the flag, execute returns    *)
(* the error when is_connected() was false and goes on otherwise           *)
UnderGuard(th, flag) ==
    CASE th.op \in {"connect", "disconnect", "connect_with_retry"} -> Finished(th, OK)
      [] th.op = "is_connected" -> Finished(th, BoolText(flag))
      [] th.op = "execute" ->
            IF flag THEN [th EXCEPT !.pc = "run"] ELSE Finished(th, ExecNotConnected)

(* the body under the guard, and the guard dropped *)
Critical(t) ==
    /\ threads[t].pc = "locked"
    /\ mutex.holder = t
    /\ connected' = FlagAfter(threads[t].op, connected)
    /\ threads' = [threads EXCEPT ![t] = UnderGuard(@, connected)]
    /\ mutex' = [mutex EXCEPT !.holder = 0]
    /\ UNCHANGED <<store, clock, last, app, run>>

(* execute after its check: the statement runs (a mock), Ok(()) *)
RunStatement(t) ==
    /\ threads[t].op = "execute"
    /\ threads[t].pc = "run"
    /\ threads' = [threads EXCEPT ![t] = [Finished(@, OK) EXCEPT !.ran = Some(connected)]]
    /\ UNCHANGED <<connected, store, clock, last, mutex, app, run>>

(* sleep(Duration::from_millis(delay_ms)).await is over *)
Sleep(t) ==
    /\ threads[t].pc = "sleep"
    /\ threads' = [threads EXCEPT ![t].pc = "while"]
    /\ UNCHANGED <<connected, store, clock, last, mutex, app, run>>

(* the caller takes the result *)
ThreadReturn(t) ==
    /\ threads[t].pc = "done"
    /\ threads' = [threads EXCEPT ![t] = IdleThread]
    /\ UNCHANGED <<connected, store, clock, last, mutex, app, run>>

(* a thread panics while it holds the guard: the Mutex is poisoned for good *)
PoisonLock ==
    /\ mutex.holder = 0
    /\ ~mutex.poisoned
    /\ mutex' = [mutex EXCEPT !.poisoned = TRUE]
    /\ UNCHANGED <<connected, store, clock, last, threads, app, run>>

---------------------------------------------------------------------------
(* parse_relative_date.  A text is a sequence of words and spaces; a       *)
(* DateTime is a day number and the seconds since midnight.  The count of  *)
(* a pattern is a word of digits, read by str::parse::<i64>.               *)

Lowered ==
    [ TODAY |-> "today", Yesterday |-> "yesterday", LAST |-> "last", Week |-> "week",
      MONTH |-> "month", Year |-> "year", Days |-> "days", WEEKS |-> "weeks",
      AGO |-> "ago" ]

(* str::to_lowercase *)
ToLowercaseText(text) ==
    [i \in 1..Len(text) |-> IF text[i] \in DOMAIN Lowered THEN Lowered[text[i]] ELSE text[i]]

(* the words of digits of the model and, where an i64 holds it, the value  *)
DigitsValue ==
    ("0" :> Some(0)) @@ ("1" :> Some(1)) @@ ("2" :> Some(2)) @@ ("7" :> Some(7))
    @@ ("1000000000" :> Some(1000000000)) @@ ("99999999999999999999" :> None)

(* \d+ *)
IsDigits(word) == word \in DOMAIN DigitsValue

(* str::split_whitespace *)
RECURSIVE SplitWhitespace(_)
SplitWhitespace(text) ==
    IF text = <<>> THEN <<>>
    ELSE IF Head(text) = SP THEN SplitWhitespace(Tail(text))
    ELSE <<Head(text)>> \o SplitWhitespace(Tail(text))

Units == {"day", "days", "week", "weeks", "month", "months", "year", "years"}

(* ^(\d+)\s+(day|days|week|weeks|month|months|year|years)\s+ago$ *)
Captures(trimmed) ==
    IF /\ Len(SplitWhitespace(trimmed)) = 3
       /\ IsDigits(SplitWhitespace(trimmed)[1])
       /\ SplitWhitespace(trimmed)[2] \in Units
       /\ SplitWhitespace(trimmed)[3] = "ago"
    THEN Some(SplitWhitespace(trimmed))
    ELSE None

(* the first day a DateTime<Utc> can hold, about 262 000 years back *)
MinDay == -96000000

DaysPerWeek == 7
DaysPerMonth == 30
DaysPerYear == 365

(* now - chrono::Duration::days(number * per): None when the result is     *)
(* before the first DateTime, where the subtraction panics.  The test is   *)
(* number * per > now.day - MinDay, written without the product.           *)
SubDays(now, number, per) ==
    IF number > (now.day - MinDay) \div per THEN None
    ELSE Some([now EXCEPT !.day = @ - number * per])

(* date_naive().and_hms_opt(0, 0, 0).unwrap().and_utc() *)
Midnight(dt) == [dt EXCEPT !.secs = 0]

DateOk(dt) == [result |-> OK, value |-> Some(dt)]

DateErr(error) == [result |-> error, value |-> None]

(* Ok(now - duration), or the panic of the subtraction *)
OkOrPanic(o) == IF IsSome(o) THEN DateOk(Unwrap(o)) ELSE DateErr(Panicked)

InvalidNumber == "Invalid number"
InvalidTimeValue == "Invalid time value"
CannotParse == "Cannot parse relative date"

DaysPer(unit) ==
    CASE unit \in {"day", "days"} -> 1
      [] unit \in {"week", "weeks"} -> DaysPerWeek
      [] unit \in {"month", "months"} -> DaysPerMonth
      [] unit \in {"year", "years"} -> DaysPerYear

(* the arm of the pattern, given the captures and the parsed count *)
AgoArm(now, unit, number) ==
    IF ~IsSome(number) THEN DateErr(InvalidNumber)
    ELSE IF Unwrap(number) <= 0 THEN DateErr(InvalidTimeValue)
    ELSE OkOrPanic(SubDays(now, Unwrap(number), DaysPer(unit)))

PatternArm(now, captures) ==
    IF IsSome(captures)
    THEN AgoArm(now, Unwrap(captures)[2], DigitsValue[Unwrap(captures)[1]])
    ELSE DateErr(CannotParse)

(* "yesterday" without the truncation to midnight *)
YesterdayKeepingTime(now) == OkOrPanic(SubDays(now, 1, 1))

(* (now - Duration::days(1)).date_naive().and_hms_opt(0, 0, 0) *)
MidnightOrPanic(o) == IF IsSome(o) THEN DateOk(Midnight(Unwrap(o))) ELSE DateErr(Panicked)

Yesterday(now) == MidnightOrPanic(SubDays(now, 1, 1))

MatchLower(now, lower) ==
    CASE lower = <<"today">> -> DateOk(Midnight(now))
      [] lower = <<"yesterday">> -> Yesterday(now)
      [] lower = <<"last", SP, "week">> -> OkOrPanic(SubDays(now, 1, DaysPerWeek))
      [] lower = <<"last", SP, "month">> -> OkOrPanic(SubDays(now, DaysPerMonth, 1))
      [] lower = <<"last", SP, "year">> -> OkOrPanic(SubDays(now, DaysPerYear, 1))
      [] OTHER -> PatternArm(now, Captures(Trim(lower)))

ParseRelativeDate(relative_date, now) == MatchLower(now, ToLowercaseText(relative_date))

---------------------------------------------------------------------------
(* The search command of the command line.                                 *)

(* match mode { "or" => SearchMode::Or, _ => SearchMode::And } *)
SearchModeOf(mode) == IF mode = "or" THEN "Or" ELSE "And"

(* the SearchQuery that execute_search builds from its arguments *)
CommandQuery(args) ==
    [ keywords |-> args.keywords, mode |-> SearchModeOf(args.mode),
      project_filter |-> args.project, project_filters |-> None,
      date_from |-> None, date_to |-> None,
      favorites_only |-> Some(args.favorites), limit |-> Some(args.limit) ]

(* search_engine.search(&query)?, the results printed, Ok(()) *)
ExecuteSearch(conn, args, today) == Search(conn, CommandQuery(args), today)

---------------------------------------------------------------------------
(* The interactive dashboard: App and the loop of run_app.  A character    *)
(* of search_input is a whole word of the model or the space; characters   *)
(* typed with no space between them make one longer word.                  *)

Key(code) == [code |-> code, c |-> ""]

Char(c) == [code |-> "Char", c |-> c]

(* String::pop *)
Pop(text) == IF text = <<>> THEN text ELSE Front(text)

HandleSearchInput(a, key) ==
    CASE key.code = "Char" -> [a EXCEPT !.search_input = Append(@, key.c)]
      [] key.code = "Backspace" -> [a EXCEPT !.search_input = Pop(@)]
      [] key.code = "Enter" ->
            IF a.search_input # <<>> THEN [a EXCEPT !.state = "ResultsList"] ELSE a
      [] key.code = "Esc" -> [a EXCEPT !.should_quit = TRUE]
      [] OTHER -> a

(* search_results.len().saturating_sub(1) *)
SaturatingSub1(n) == IF n = 0 THEN 0 ELSE n - 1

(* handle_results_list where Down stops one position later *)
HandleResultsListPastEnd(a, key) ==
    CASE key.code = "Up" ->
            IF a.selected_index > 0 THEN [a EXCEPT !.selected_index = @ - 1] ELSE a
      [] key.code = "Down" ->
            IF a.selected_index < Len(a.search_results)
            THEN [a EXCEPT !.selected_index = @ + 1] ELSE a
      [] key.code = "Enter" ->
            IF a.search_results # <<>> THEN [a EXCEPT !.state = "ViewingResult"] ELSE a
      [] key.code = "Esc" -> [a EXCEPT !.state = "SearchInput", !.selected_index = 0]
      [] OTHER -> a

HandleResultsList(a, key) ==
    CASE key.code = "Up" ->
            IF a.selected_index > 0 THEN [a EXCEPT !.selected_index = @ - 1] ELSE a
      [] key.code = "Down" ->
            IF a.selected_index < SaturatingSub1(Len(a.search_results))
            THEN [a EXCEPT !.selected_index = @ + 1] ELSE a
      [] key.code = "Enter" ->
            IF a.search_results # <<>> THEN [a EXCEPT !.state = "ViewingResult"] ELSE a
      [] key.code = "Esc" -> [a EXCEPT !.state = "SearchInput", !.selected_index = 0]
      [] OTHER -> a

(* handle_viewing_result where Esc goes back to the search input *)
HandleViewingResultToInput(a, key) ==
    IF key.code = "Esc" THEN [a EXCEPT !.state = "SearchInput"] ELSE a

HandleViewingResult(a, key) ==
    IF key.code = "Esc" THEN [a EXCEPT !.state = "ResultsList"] ELSE a

HandleKey(a, key) ==
    CASE a.state = "SearchInput" -> HandleSearchInput(a, key)
      [] a.state = "ResultsList" -> HandleResultsList(a, key)
      [] a.state = "ViewingResult" -> HandleViewingResult(a, key)

(* str::split_whitespace on the input: the characters between spaces make  *)
(* one word; a word of several characters of the model is a word that no   *)
(* content holds                                                           *)
NoSuchWord == "no such word"

RECURSIVE InputWords(_, _, _)
InputWords(text, word, words) ==
    IF text = <<>>
    THEN IF word = <<>> THEN words ELSE Append(words, word)
    ELSE IF Head(text) = SP
    THEN InputWords(Tail(text), <<>>, IF word = <<>> THEN words ELSE Append(words, word))
    ELSE InputWords(Tail(text), Append(word, Head(text)), words)

InputKeywords(search_input) ==
    [ i \in 1..Len(InputWords(search_input, <<>>, <<>>)) |->
        IF Len(InputWords(search_input, <<>>, <<>>)[i]) = 1
        THEN InputWords(search_input, <<>>, <<>>)[i][1]
        ELSE NoSuchWord ]

(* SearchQuery { keywords, mode: SearchMode::And, ..Default::default() } *)
InputQuery(search_input) ==
    [DefaultQuery EXCEPT !.keywords = InputKeywords(search_input), !.mode = "And"]

(* self.search_results = search_engine.search(&query)?; selected_index = 0 *)
Searched(a, r) ==
    IF r.result # OK THEN [result |-> r.result, app |-> a]
    ELSE [ result |-> OK,
           app |-> [a EXCEPT !.search_results = r.results, !.selected_index = 0] ]

PerformSearch(a, conn, today) == Searched(a, Search(conn, InputQuery(a.search_input), today))

(* the end of an iteration of the loop: if app.should_quit { return Ok(()) } *)
EndOfIteration(key, a, searched) ==
    /\ app' = a
    /\ run' = [ pc |-> IF a.should_quit THEN "returned" ELSE "loop", result |-> OK,
                key |-> key, before |-> app, searched |-> searched ]

(* app.perform_search(connection)?: an error ends run_app *)
AfterPerformSearch(key, r) ==
    IF r.result # OK
    THEN /\ app' = r.app
         /\ run' = [ pc |-> "returned", result |-> r.result, key |-> key,
                     before |-> app, searched |-> TRUE ]
    ELSE EndOfIteration(key, r.app, TRUE)

(* if app.state == ResultsList && app.search_results.is_empty() *)
AfterHandleKey(key, a) ==
    IF a.state = "ResultsList" /\ a.search_results = <<>>
    THEN AfterPerformSearch(key, PerformSearch(a, connected, Today))
    ELSE EndOfIteration(key, a, FALSE)

(* one iteration of the loop of run_app on a key event *)
KeyEvent(keys) ==
    /\ run.pc = "loop"
    /\ \E key \in keys :
           /\ (key.code = "Char" /\ app.state = "SearchInput")
                  => Len(app.search_input) < MaxInput
           /\ IF key = Char("q") /\ app.state = "ResultsList"
              THEN /\ run' = [ pc |-> "returned", result |-> OK, key |-> key,
                               before |-> app, searched |-> FALSE ]
                   /\ UNCHANGED app
              ELSE AfterHandleKey(key, HandleKey(app, key))
    /\ UNCHANGED <<connected, store, clock, last, mutex, threads>>

---------------------------------------------------------------------------
(* SpecRank: rank_results on result sequences of up to MaxResults          *)
(* elements; the id of a result is its position in the input.              *)

RankValues == {80, 90, NaN}

RankInputs ==
    UNION { { [i \in 1..n |-> SearchResult(i, "uuid", "session", "content", "/p", Today,
                                           ranks[i])] :
                ranks \in [1..n -> RankValues] } : n \in 0..MaxResults }

RankReturns(input, out) ==
    /\ last' = [Call("rank_results", out.result, <<>>)
                EXCEPT !.input = <<input>>, !.results = out.results]
    /\ UNCHANGED <<mutex, threads, app, run, connected, store, clock>>

RankResultsCall(inputs) ==
    /\ last = Idle
    /\ \E input \in inputs : \E out \in RankResults(input) : RankReturns(input, out)

NextRank ==
    \/ Connect
    \/ Disconnect
    \/ RankResultsCall(RankInputs)
    \/ Return

SpecRank == Init /\ [][NextRank]_vars

---------------------------------------------------------------------------
(* SpecParse: the two document decoders on every document of up to MaxDoc  *)
(* characters.                                                             *)

DocChars == {NL, SP, JsonOfBase, JsonOfOther, InvalidJson}

Documents == UNION {[1..n -> DocChars] : n \in 0..MaxDoc}

ParseReturns(doc, r) ==
    /\ last' = [Call("parse_multiple_messages", r.result, <<>>)
                EXCEPT !.input = <<doc>>, !.results = r.messages]
    /\ UNCHANGED <<mutex, threads, app, run, connected, store, clock>>

ParseMultipleMessagesCall(docs) ==
    /\ last = Idle
    /\ \E doc \in docs : ParseReturns(doc, ParseMultipleMessages(doc))

ParseMultipleMessagesSkipErrorsCall(docs) ==
    /\ last = Idle
    /\ \E doc \in docs :
           /\ last' = [Call("parse_multiple_messages_skip_errors", OK, <<>>)
                       EXCEPT !.input = <<doc>>,
                              !.results = ParseMultipleMessagesSkipErrors(doc)]
           /\ UNCHANGED <<mutex, threads, app, run, connected, store, clock>>

NextParse ==
    \/ ParseMultipleMessagesCall(Documents)
    \/ ParseMultipleMessagesSkipErrorsCall(Documents)
    \/ Return

SpecParse == Init /\ [][NextParse]_vars

---------------------------------------------------------------------------
(* SpecWire: every ClaudeMessage whose optional fields are present or      *)
(* absent in every combination is written to the wire format and read back *)

ContentValues == {JsonNull, JsonString(<<"hello">>), JsonString(<<"it", Q, "s">>)}

WireMessages ==
    { [BaseMessage EXCEPT !.parent_uuid = p, !.git_branch = g, !.is_sidechain = s,
                          !.message = [role |-> r, content |-> c, id |-> i,
                                       content_type |-> t, model |-> mo]] :
        p \in OptionOf({<<"u0">>}), g \in OptionOf({<<"main">>}), s \in BOOLEAN,
        r \in OptionOf({<<"user">>}), c \in OptionOf(ContentValues),
        i \in OptionOf({<<"m1">>}), t \in OptionOf({<<"message">>}),
        mo \in OptionOf({<<"model-x">>}) }

WireReturns(m, r) ==
    /\ last' = [Call("parse_single_message", IF r.ok THEN OK ELSE r.error, <<>>)
                EXCEPT !.input = <<m>>, !.results = r.message]
    /\ UNCHANGED <<mutex, threads, app, run, connected, store, clock>>

(* parse_single_message on the serialization of m *)
ParseSerializedCall(messages) ==
    /\ last = Idle
    /\ \E m \in messages :
           WireReturns(m, DeserializeClaudeMessage(SerializeClaudeMessage(m)))

NextWire ==
    \/ ParseSerializedCall(WireMessages)
    \/ Return

SpecWire == Init /\ [][NextWire]_vars

---------------------------------------------------------------------------
(* SpecRetry: one thread calls connect_with_retry with up to MaxRetries    *)
(* retries, on a Mutex that can be poisoned at any moment; every step of   *)
(* the thread is eventually taken.                                         *)

RetryDelays == {0, 10, 1000}

RetryThread == CHOOSE t \in Threads : TRUE

RetryStep ==
    \/ RetryWhile(RetryThread)
    \/ Lock(RetryThread)
    \/ Critical(RetryThread)
    \/ Sleep(RetryThread)

NextRetry ==
    \/ ConnectWithRetryCall(RetryThread, 0..MaxRetries, RetryDelays)
    \/ RetryStep
    \/ ThreadReturn(RetryThread)
    \/ PoisonLock

SpecRetry == Init /\ [][NextRetry]_vars /\ WF_vars(RetryStep)

---------------------------------------------------------------------------
(* SpecThreads: two threads call connect, disconnect, is_connected and     *)
(* execute on one connector, in any interleaving.                          *)

NextThreads ==
    \/ \E t \in Threads : ConnectorCall(t, ConnectorOps)
    \/ \E t \in Threads : Lock(t)
    \/ \E t \in Threads : Critical(t)
    \/ \E t \in Threads : RunStatement(t)
    \/ \E t \in Threads : ThreadReturn(t)
    \/ PoisonLock

SpecThreads == Init /\ [][NextThreads]_vars

---------------------------------------------------------------------------
(* SpecDates: parse_relative_date on the literals and on the patterns      *)
(* "<count> <unit> ago", in both letter cases and with one or two spaces   *)
(* around the words, at midnight and at another time of the day.           *)

TimesOfDay == {0, 45000}

(* the words of a text are always separated by at least one space *)
Spaces == {<<SP>>, <<SP, SP>>}

LiteralTexts ==
    { <<"today">>, <<"TODAY">>, <<"yesterday">>, <<"Yesterday">>,
      <<"last", SP, "week">>, <<"LAST", SP, "Week">>, <<"last", SP, "month">>,
      <<"last", SP, "MONTH">>, <<"last", SP, "year">>, <<"LAST", SP, "Year">> }

CountWords == DOMAIN DigitsValue \cup {"-1", "abc"}

UnitWords == Units \cup {"Days", "WEEKS", "hours"}

PatternTexts ==
    { a \o <<n>> \o b \o <<u>> \o c \o e \o a :
        a \in {<<>>, <<SP>>}, n \in CountWords, b \in Spaces, u \in UnitWords,
        c \in Spaces, e \in {<<"ago">>, <<"AGO">>, <<>>} }

RelativeDates == LiteralTexts \cup PatternTexts \cup {<<>>, <<SP, "today">>}

DateReturns(text, now, r) ==
    /\ last' = [Call("parse_relative_date", r.result, <<>>)
                EXCEPT !.input = <<text, now>>, !.results = r.value]
    /\ UNCHANGED <<connected, store, clock, mutex, threads, app, run>>

ParseRelativeDateCall(texts) ==
    /\ last = Idle
    /\ \E text \in texts, secs \in TimesOfDay :
           DateReturns(text, [day |-> Today, secs |-> secs],
                       ParseRelativeDate(text, [day |-> Today, secs |-> secs]))

NextDates ==
    \/ ParseRelativeDateCall(RelativeDates)
    \/ Return

SpecDates == Init /\ [][NextDates]_vars

---------------------------------------------------------------------------
(* SpecCli: the search command with and without --from and --to, on a      *)
(* connection that is opened and closed.                                   *)

DateArgs ==
    { <<"last", SP, "week">>, <<"2", SP, "days", SP, "ago">>,
      <<"not", SP, "a", SP, "date">> }

CliLimits == {1, 20}

SearchCommands ==
    [ keywords : {<<>>, <<"test">>, <<"rust", "python">>}, mode : {"and", "or"},
      project : OptionOf(ProjectScopes), from : OptionOf(DateArgs),
      to : OptionOf(DateArgs), favorites : BOOLEAN, limit : CliLimits ]

CommandReturns(args, r) ==
    /\ last' = [Call("execute_search", r.result, <<>>)
                EXCEPT !.input = <<args>>, !.batch = <<CommandQuery(args)>>,
                       !.results = r.results]
    /\ UNCHANGED <<connected, store, clock, mutex, threads, app, run>>

ExecuteSearchCall(commands) ==
    /\ last = Idle
    /\ \E args \in commands : CommandReturns(args, ExecuteSearch(connected, args, Today))

NextCli ==
    \/ Connect
    \/ Disconnect
    \/ ExecuteSearchCall(SearchCommands)
    \/ Return

SpecCli == Init /\ [][NextCli]_vars

---------------------------------------------------------------------------
(* SpecTui: run_app on every sequence of key events, with inputs of up to  *)
(* MaxInput characters, on a connection that is opened and closed.         *)

TypedChars == {"test", "rust", SP, "q"}

Keys ==
    {Key(code) : code \in {"Enter", "Esc", "Up", "Down", "Backspace", "Tab"}}
        \cup {Char(c) : c \in TypedChars}

NextTui ==
    \/ Connect
    \/ Disconnect
    \/ Return
    \/ KeyEvent(Keys)

SpecTui == Init /\ [][NextTui]_vars

---------------------------------------------------------------------------
(* Properties of search.                                                   *)

IsSearch(call) == call.op = "search"

(* C11: search with an empty keyword list returns Ok with an empty result   *)
(* sequence and hands nothing to the store, whatever the connection state  *)
(* and the other query fields.                                             *)
C11_EmptyKeywordsReturnEmpty ==
    (IsSearch(last) /\ last.input[1].keywords = <<>>)
    => (last.result = OK /\ last.results = <<>> /\ last.log = <<>>)

(* content.to_lowercase().contains(keyword.to_lowercase()) for the contents *)
(* of the candidates and the keywords of the model                         *)
Mentions(content, k) ==
    IF content = TEST_CONTENT THEN ToLowercase(k) \in {"test", "rust", "programming"}
    ELSE IF content \in {"This is a test message", "This is a test from old project"}
    THEN ToLowercase(k) = "test"
    ELSE FALSE

MentionsAll(content, keywords) == \A k \in Range(keywords) : Mentions(content, k)

MentionsAny(content, keywords) == \E k \in Range(keywords) : Mentions(content, k)

(* C12: for a non-empty keyword list, in AND mode the content of every      *)
(* result contains every keyword, in OR mode the content of every result   *)
(* contains at least one keyword.                                          *)
C12_ResultsContainKeywords ==
    (IsSearch(last) /\ last.result = OK)
    => \A i \in 1..Len(last.results) :
           IF last.input[1].mode = "And"
           THEN MentionsAll(Unwrap(last.results[i].message_content), last.input[1].keywords)
           ELSE MentionsAny(Unwrap(last.results[i].message_content), last.input[1].keywords)

(* query.limit.unwrap_or(100) *)
LimitOf(q) == IF IsSome(q.limit) THEN Unwrap(q.limit) ELSE DefaultLimit

(* C13: search never returns more results than the limit of the query (100 *)
(* when the limit is unset).                                               *)
C13_ResultsWithinLimit ==
    IsSearch(last) => Len(last.results) <= LimitOf(last.input[1])

NonEmptyList(o) == IsSome(o) /\ Unwrap(o) # <<>>

InProjectList(call) ==
    NonEmptyList(call.input[1].project_filters)
    => /\ \A i \in 1..Len(call.results) :
              call.results[i].project_path \in Range(Unwrap(call.input[1].project_filters))
       /\ call.results
              = Search(connected, [call.input[1] EXCEPT !.project_filter = None], Today).results

(* C14 as stated: project_filters = Some([]) returns what the same query   *)
(* returns with project_filters = None, also when project_filter is set;   *)
(* a non-empty list restricts to its projects whatever project_filter is.  *)
C14_EmptyListIsNone ==
    (IsSearch(last) /\ last.result = OK)
    => /\ last.input[1].project_filters = Some(<<>>)
          => last.results
                 = Search(connected, [last.input[1] EXCEPT !.project_filters = None],
                          Today).results
       /\ InProjectList(last)

(* C14, amended: project_filters = Some([]) applies no project restriction *)
(* at all: the query returns what it returns with project_filters = None   *)
(* and project_filter = None, so a project_filter that is also set is      *)
(* ignored; a non-empty list restricts to its projects whatever            *)
(* project_filter is.                                                      *)
C14_EmptyListIsNoRestriction ==
    (IsSearch(last) /\ last.result = OK)
    => /\ last.input[1].project_filters = Some(<<>>)
          => last.results
                 = Search(connected, [last.input[1] EXCEPT !.project_filters = None,
                                                           !.project_filter = None],
                          Today).results
       /\ InProjectList(last)

C14_Witness ==
    /\ IsSearch(last) /\ last.result = OK
    /\ last.input[1].project_filters = Some(<<>>)
    /\ last.input[1].project_filter = Some("/old/project")
    /\ Len(last.results) = 2
    /\ last.results[1].project_path = "/test/project"

WithinDates(r, q) ==
    /\ IsSome(q.date_from) => r.timestamp >= Unwrap(q.date_from)
    /\ IsSome(q.date_to) => r.timestamp <= Unwrap(q.date_to)

KeptByDates(results, q) ==
    LET Keep(r) == WithinDates(r, q) IN SelectSeq(results, Keep)

(* C15: the results are the ones of the same query without date bounds     *)
(* whose timestamp is within the bounds, both inclusive; when date_from is *)
(* later than date_to the call succeeds and the result is empty.           *)
C15_DateBoundsInclusive ==
    (IsSearch(last) /\ last.result = OK)
    => /\ \A i \in 1..Len(last.results) : WithinDates(last.results[i], last.input[1])
       /\ last.results
              = KeptByDates(Search(connected, [last.input[1] EXCEPT !.date_from = None,
                                                                    !.date_to = None],
                                   Today).results, last.input[1])
       /\ ( /\ IsSome(last.input[1].date_from) /\ IsSome(last.input[1].date_to)
            /\ Unwrap(last.input[1].date_from) > Unwrap(last.input[1].date_to) )
          => last.results = <<>>

C15_Witness ==
    /\ IsSearch(last) /\ last.result = OK
    /\ last.input[1].date_from = Some(Today - 3)
    /\ last.input[1].date_to = Some(Today - 3)
    /\ Len(last.results) = 1
    /\ last.results[1].timestamp = Today - 3

IsSubsequence(a, b) ==
    \E f \in [1..Len(a) -> 1..Len(b)] :
        /\ \A i, j \in 1..Len(a) : i < j => f[i] < f[j]
        /\ \A i \in 1..Len(a) : a[i] = b[f[i]]

NonIncreasingRank(results) ==
    \A i, j \in 1..Len(results) : i < j => results[i].rank >= results[j].rank

(* C16: the results are a subsequence of the ranked candidates (filters    *)
(* only remove, never reorder), and the candidates, hence the results, are *)
(* in non-increasing rank.                                                 *)
C16_FiltersKeepRankOrder ==
    (IsSearch(last) /\ last.result = OK /\ last.input[1].keywords # <<>>)
    => /\ IsSubsequence(last.results, Candidates(last.input[1], Today))
       /\ NonIncreasingRank(Candidates(last.input[1], Today))
       /\ NonIncreasingRank(last.results)

C16_Witness ==
    /\ IsSearch(last) /\ last.result = OK
    /\ IsSome(last.input[1].date_from) /\ IsSome(last.input[1].date_to)
    /\ IsSome(last.input[1].project_filters)
    /\ Len(last.results) = 2
    /\ last.results[1].rank > last.results[2].rank

Ids(results) == {results[i].id : i \in 1..Len(results)}

FavoriteSearches ==
    {q \in SearchQueries : q.favorites_only = Some(TRUE) /\ q.keywords # <<>>}

Unrestricted(q) == [q EXCEPT !.favorites_only = None]

(* C17: after mark_as_favorite(id) succeeds, a search with favorites_only = *)
(* Some(true) that the record id matches contains the record; after        *)
(* unmark_as_favorite(id) succeeds, it does not.                           *)
C17_FavoriteToggleShowsInSearch ==
    /\ (last.op = "mark_as_favorite" /\ last.result = OK)
       => \A q \in FavoriteSearches :
              last.input[1] \in Ids(Search(connected, Unrestricted(q), Today).results)
              => last.input[1] \in Ids(Search(connected, q, Today).results)
    /\ (last.op = "unmark_as_favorite" /\ last.result = OK)
       => \A q \in FavoriteSearches :
              last.input[1] \notin Ids(Search(connected, q, Today).results)

---------------------------------------------------------------------------
(* Properties of rank_results.                                             *)

IsPermutation(out, input) == out \in Reorderings(input)

(* no result comes after one of lower rank (f64 >, false on NaN) *)
RankDescending(out) ==
    \A i, j \in 1..Len(out) : i < j => PartialCmp(out[j].rank, out[i].rank) # Some("Greater")

(* results of equal rank (f64 ==) are in input order *)
EqualRanksKeepOrder(out) ==
    \A i, j \in 1..Len(out) :
        (i < j /\ PartialCmp(out[i].rank, out[j].rank) = Some("Equal"))
        => out[i].id < out[j].id

---------------------------------------------------------------------------
(* Properties of the document decoders.                                    *)

IsBlank(line) == \A i \in 1..Len(line) : line[i] = SP

(* the 1-based positions of the lines of the document that are not blank   *)
NonBlankLines(doc) == {i \in 1..Len(Lines(doc)) : ~IsBlank(Lines(doc)[i])}

MalformedLines(doc) ==
    {i \in NonBlankLines(doc) : ~ParseSingleMessage(Trim(Lines(doc)[i])).ok}

(* C19: parse_multiple_messages_skip_errors returns one (line number,      *)
(* result) pair per non-blank line and none for a blank line, in input     *)
(* order, the line number being the 1-based position of the line in the    *)
(* document (blank lines counted); as many results are errors as there are *)
(* malformed non-blank lines.                                              *)
C19_SkipErrorsKeepsLineNumbers ==
    last.op = "parse_multiple_messages_skip_errors"
    => /\ {last.results[k].line : k \in 1..Len(last.results)} = NonBlankLines(last.input[1])
       /\ Len(last.results) = Cardinality(NonBlankLines(last.input[1]))
       /\ \A k, l \in 1..Len(last.results) :
              k < l => last.results[k].line < last.results[l].line
       /\ \A k \in 1..Len(last.results) :
              last.results[k].result
                  = ParseSingleMessage(Trim(Lines(last.input[1])[last.results[k].line]))
       /\ Cardinality({k \in 1..Len(last.results) : ~last.results[k].result.ok})
              = Cardinality(MalformedLines(last.input[1]))

C19_Witness ==
    /\ last.op = "parse_multiple_messages_skip_errors"
    /\ last.input[1] = <<NL, InvalidJson, NL, JsonOfBase>>
    /\ Len(last.results) = 2
    /\ last.results[1].line = 2 /\ ~last.results[1].result.ok
    /\ last.results[2].line = 3 /\ last.results[2].result = ParseOk(BaseMessage)

(* the Ok values of a sequence of (line number, result) pairs, in order *)
OkValues(results) ==
    LET IsOk(r) == r.result.ok
        oks == SelectSeq(results, IsOk)
    IN  [k \in 1..Len(oks) |-> Unwrap(oks[k].result.message)]

(* C20: parse_multiple_messages returns an error, and no message, exactly  *)
(* when a non-blank line of the document is malformed; otherwise it        *)
(* returns the messages of the non-blank lines in input order, the Ok      *)
(* values of parse_multiple_messages_skip_errors on the same document.     *)
C20_FailFastIffMalformedLine ==
    last.op = "parse_multiple_messages"
    => /\ (last.result # OK) <=> (MalformedLines(last.input[1]) # {})
       /\ last.result # OK => (last.result = ParseError /\ last.results = <<>>)
       /\ last.result = OK
          => /\ last.results = OkValues(ParseMultipleMessagesSkipErrors(last.input[1]))
             /\ Len(last.results) = Cardinality(NonBlankLines(last.input[1]))

C20_Witness ==
    /\ last.op = "parse_multiple_messages"
    /\ last.input[1] = <<JsonOfBase, NL, InvalidJson, NL>>
    /\ last.result = ParseError
    /\ last.results = <<>>

---------------------------------------------------------------------------
(* Properties of the wire format.                                          *)

(* C21: decoding the wire encoding of a ClaudeMessage yields the message   *)
(* again, for every combination of present and absent optional fields and  *)
(* every content value, a present JSON null included.                      *)
C21_DecodeEncodeIsIdentity ==
    last.op = "parse_single_message"
    => (last.result = OK /\ last.results = Some(last.input[1]))

---------------------------------------------------------------------------
(* Properties of the connector.                                            *)

InRetry(th) == th.op = "connect_with_retry"

(* what holds of a connect_with_retry at every moment of its run *)
RetryBounded(th) ==
    /\ th.tries <= th.max_retries
    /\ th.attempts <= th.tries
    /\ \A k \in 1..Len(th.waits) :
           k < th.max_retries /\ th.waits[k] = th.retry_delay_ms * k
    /\ th.pc # "done" => Len(th.waits) = th.attempts
    /\ (th.pc = "done" /\ th.result = OK)
           => (th.tries = th.attempts + 1 /\ Len(th.waits) = th.attempts)
    /\ (th.pc = "done" /\ th.result # OK)
           => /\ th.tries = th.max_retries
              /\ th.attempts = th.max_retries
              /\ Len(th.waits) = IF th.max_retries = 0 THEN 0 ELSE th.max_retries - 1

(* C22: connect_with_retry terminates; it makes at most max_retries        *)
(* connect attempts, returns Ok at the first attempt that succeeds, waits  *)
(* retry_delay_ms * k after the k-th failed attempt when k < max_retries,  *)
(* and returns an error with no further attempt or wait once max_retries   *)
(* attempts have failed.                                                   *)
C22_RetryTerminatesWithinBound ==
    /\ [](\A t \in Threads : InRetry(threads[t]) => RetryBounded(threads[t]))
    /\ \A t \in Threads : InRetry(threads[t]) ~> (threads[t].pc = "done")

C22_Witness ==
    /\ InRetry(threads[RetryThread])
    /\ threads[RetryThread].pc = "done"
    /\ threads[RetryThread].max_retries = 3
    /\ threads[RetryThread].retry_delay_ms = 10
    /\ threads[RetryThread].result = RetryExhausted
    /\ threads[RetryThread].tries = 3
    /\ threads[RetryThread].waits = <<10, 20>>

(* thread t ends a call of op in this step *)
Completes(t, op) ==
    /\ threads[t].op = op
    /\ threads[t].pc # "done"
    /\ threads'[t].pc = "done"

(* C23: under any interleaving of connect, disconnect, is_connected and    *)
(* execute by several threads, is_connected returns the value of the flag  *)
(* at the moment it returns, the one set by the latest completed connect   *)
(* or disconnect, and execute returns Ok only if the connection is         *)
(* connected at the moment its statement runs.                             *)
C23_OperationsAtomicOnFlag ==
    [][ \A t \in Threads :
          /\ Completes(t, "is_connected") => threads'[t].result = BoolText(connected)
          /\ (Completes(t, "execute") /\ threads'[t].result = OK) => connected
      ]_vars

(* C24: once the lock is poisoned, every later connect, disconnect,        *)
(* is_connected and execute reports the poisoning, an error distinct from  *)
(* "not connected"; none answers as if the connection were merely          *)
(* disconnected or connected.                                              *)
C24_PoisonIsReportedAsFatal ==
    \A t \in Threads :
        (threads[t].pc = "done" /\ threads[t].poison_seen)
            => threads[t].result = LockPoisoned

---------------------------------------------------------------------------
(* Properties of parse_relative_date.                                      *)

IsParseDate(call) == call.op = "parse_relative_date"

(* the offset in days of the literals other than "today" *)
LiteralOffsets ==
    [ yesterday |-> 1, week |-> 7, month |-> 30, year |-> 365 ]

LiteralKey(lower) ==
    IF lower = <<"yesterday">> THEN "yesterday" ELSE lower[Len(lower)]

IsOffsetLiteral(lower) ==
    lower \in { <<"yesterday">>, <<"last", SP, "week">>, <<"last", SP, "month">>,
                <<"last", SP, "year">> }

(* C25: in any letter case, "today" is midnight at the start of the        *)
(* current day, and "yesterday", "last week", "last month", "last year"    *)
(* are now minus 1, 7, 30, 365 days with the time of day kept.             *)
C25_LiteralsKeepTimeOfDay ==
    IsParseDate(last)
    => /\ ToLowercaseText(last.input[1]) = <<"today">>
          => (last.result = OK /\ last.results = Some([last.input[2] EXCEPT !.secs = 0]))
       /\ IsOffsetLiteral(ToLowercaseText(last.input[1]))
          => /\ last.result = OK
             /\ last.results =
                  Some([last.input[2] EXCEPT !.day =
                          @ - LiteralOffsets[LiteralKey(ToLowercaseText(last.input[1]))]])

(* the words of a text of the form "<N> <unit> ago" *)
AgoForm(words) ==
    /\ Len(words) = 3
    /\ IsDigits(words[1])
    /\ words[2] \in Units
    /\ words[3] = "ago"

IsLiteral(lower) == lower = <<"today">> \/ IsOffsetLiteral(lower)

IsDateError(result) == result \notin {OK, Panicked}

(* what the call has to return, given the words of its lowercased input *)
AgoFormResolved(call, words) ==
    IF AgoForm(words)
    THEN IF words[1] = "0"
         THEN IsDateError(call.result)
         ELSE /\ call.result = OK
              /\ IsSome(DigitsValue[words[1]])
              /\ call.results = SubDays(call.input[2], Unwrap(DigitsValue[words[1]]),
                                        DaysPer(words[2]))
    ELSE IsLiteral(ToLowercaseText(call.input[1])) \/ IsDateError(call.result)

(* C26: for every input "<N> <unit> ago", in any letter case and with any  *)
(* amount of whitespace around and between the words, parse_relative_date  *)
(* returns now minus N*1, N*7, N*30 or N*365 days for every N >= 1,        *)
(* however large, and an error for N = 0; for any other text it returns an *)
(* error and never aborts.                                                 *)
C26_AgoPatternForEveryCount ==
    IsParseDate(last)
    => AgoFormResolved(last, SplitWhitespace(ToLowercaseText(last.input[1])))

---------------------------------------------------------------------------
(* Properties of the search command.                                       *)

NowAtNoon == [day |-> Today, secs |-> 45000]

(* the bound that a --from or --to argument has to become *)
BoundOf(arg) == IF IsSome(arg) THEN ParseRelativeDate(Unwrap(arg), NowAtNoon).value ELSE None

Unparseable(arg) == IsSome(arg) /\ ParseRelativeDate(Unwrap(arg), NowAtNoon).result # OK

(* C27: the search command applies --from and --to: a parseable argument   *)
(* becomes the date_from / date_to bound of the query handed to the search *)
(* engine, and an unparseable one makes the command fail with an           *)
(* invalid-query error before the store is consulted.                      *)
C27_FromToReachTheQuery ==
    last.op = "execute_search"
    => IF Unparseable(last.input[1].from) \/ Unparseable(last.input[1].to)
       THEN IsError(last.result) /\ last.result # NotConnected /\ last.results = <<>>
       ELSE /\ last.batch[1].date_from = BoundOf(last.input[1].from)
            /\ last.batch[1].date_to = BoundOf(last.input[1].to)

---------------------------------------------------------------------------
(* Properties of the dashboard.  run.before is the App before the latest   *)
(* key event and run.key the key.                                          *)

(* the latest key event was handed to handle_key in the given state *)
Handled(state, code) ==
    /\ run.key.code = code
    /\ run.before.state = state
    /\ ~(run.key = Char("q") /\ state = "ResultsList")

ValidIndex(a) ==
    IF a.search_results = <<>> THEN a.selected_index = 0
    ELSE a.selected_index < Len(a.search_results)

(* C28: after any sequence of key events and searches selected_index is a  *)
(* valid position, 0 when there are no results and below their number      *)
(* otherwise; Up at index 0 and Down at the last index leave it unchanged; *)
(* Esc in the results list and perform_search reset it to 0.               *)
C28_SelectedIndexIsValid ==
    /\ ValidIndex(app)
    /\ (Handled("ResultsList", "Up") /\ run.before.selected_index = 0)
           => app.selected_index = 0
    /\ (Handled("ResultsList", "Down") /\ run.before.search_results # <<>>
            /\ run.before.selected_index = Len(run.before.search_results) - 1)
           => app.selected_index = run.before.selected_index
    /\ Handled("ResultsList", "Esc") => app.selected_index = 0
    /\ (run.searched /\ run.result = OK) => app.selected_index = 0

C28_Witness ==
    /\ Handled("ResultsList", "Down")
    /\ Len(run.before.search_results) = 2
    /\ run.before.selected_index = 1
    /\ app.selected_index = 1
    /\ app.state = "ResultsList"

(* the changes of state that handle_key may make *)
AllowedTransition(before, key, after) ==
    \/ /\ before.state = "SearchInput" /\ after.state = "ResultsList"
       /\ key.code = "Enter" /\ before.search_input # <<>>
    \/ /\ before.state = "ResultsList" /\ after.state = "ViewingResult"
       /\ key.code = "Enter" /\ before.search_results # <<>>
    \/ /\ before.state = "ViewingResult" /\ after.state = "ResultsList"
       /\ key.code = "Esc"
    \/ /\ before.state = "ResultsList" /\ after.state = "SearchInput"
       /\ key.code = "Esc"

(* C29: the state changes only from SearchInput to ResultsList on Enter    *)
(* with a non-empty input, from ResultsList to ViewingResult on Enter with *)
(* a result, from ViewingResult to ResultsList on Esc and from ResultsList *)
(* to SearchInput on Esc; Esc in SearchInput sets should_quit; the state   *)
(* is never ViewingResult while there are no results, and should_quit is   *)
(* never cleared.                                                          *)
C29_StateTransitions ==
    /\ app.state # run.before.state => AllowedTransition(run.before, run.key, app)
    /\ Handled("SearchInput", "Esc") => app.should_quit
    /\ app.state = "ViewingResult" => app.search_results # <<>>
    /\ run.before.should_quit => app.should_quit
    /\ app.should_quit => Handled("SearchInput", "Esc")

C29_Witness ==
    /\ Handled("ViewingResult", "Esc")
    /\ app.state = "ResultsList"
    /\ app.search_results # <<>>
    /\ ~app.should_quit

(* C30: whenever the app is in ResultsList after a key event has been      *)
(* handled, search_results are the results of a search for the current     *)
(* search_input: after going back to SearchInput, editing the input and    *)
(* pressing Enter, the results of the previous input are not shown.        *)
C30_ResultsMatchCurrentInput ==
    (run.pc = "loop" /\ run.key.code # "None" /\ app.state = "ResultsList")
        => app.search_results = Search(TRUE, InputQuery(app.search_input), Today).results

====
